---- MODULE Spec2Model ----
(***************************************************************************)
(* Fake-review detection: the feature-extraction and prediction pipeline   *)
(* (ml_models/feature_extraction.py, ml_models/model_utils.py) and the     *)
(* prediction endpoints (backend/routes/predict.py).                       *)
(*                                                                         *)
(* Python values are tagged records, so that a None, a number and a string *)
(* stay distinguishable the way they are at run time; a review (a dict) is *)
(* a function whose domain is the set of keys present.  Floats are held in *)
(* fixed point: probabilities and scaled features in thousandths, ratings  *)
(* in tenths of a star.                                                    *)
(***************************************************************************)
EXTENDS Integers, Sequences, FiniteSets, TLC

VARIABLES
    feature_extractor,  \* the ReviewFeatureExtractor object: tfidf_vectorizer, scaler
    model,              \* the classifier object used by the prediction functions
    last,               \* the latest completed call: operation, arguments, outcome
    calls,              \* the concurrent prediction calls of the serving process
    files,              \* the disk: the saved_models directory and the temporary files
    bulk,               \* the model and feature_extractor globals of routes/bulk.py
    analytics_df        \* the df global of routes/analytics.py: the dataset

vars == <<feature_extractor, model, last, calls, files, bulk, analytics_df>>

---------------------------------------------------------------------------
(* Python values *)

None == [t |-> "None"]
Num(n) == [t |-> "num", v |-> n]
Bool(b) == [t |-> "bool", v |-> b]
Str(s) == [t |-> "str", v |-> s]
\* a text value: the sequence of its characters
Text(s) == [t |-> "text", v |-> s]

\* marks a key left out of a dict under construction; never a value of a dict
Absent == [t |-> "absent"]

IsNumber(x) == x.t = "num"

\* pd.isna on a scalar
isna(x) == x.t = "None"

\* Python truth value
truthy(x) ==
    CASE x.t = "None" -> FALSE
      [] x.t = "bool" -> x.v
      [] x.t = "num"  -> x.v # 0
      [] x.t = "str"  -> x.v # ""
      [] x.t = "text" -> x.v # <<>>

\* dict.get(key, default)
get(d, key, default) == IF key \in DOMAIN d THEN d[key] ELSE default

\* a file that does not exist
Missing == [t |-> "missing"]

\* a disk without saved artefacts and without temporary files
EmptyDisk ==
    [saved_models |-> [model |-> Missing, extractor |-> Missing,
                       model_metrics |-> Missing, full_metrics |-> Missing],
     tmp |-> {}]

\* a module that has not been imported: its globals are not bound
Unimported == [t |-> "unimported"]

\* the outcome of a call: a returned value or a raised exception
Return(v) == [raised |-> FALSE, value |-> v]
Raise(type, msg) == [raised |-> TRUE, value |-> [type |-> type, msg |-> msg]]

\* an assignment to a local name: the value v, computed once, as F's argument
Let(v, F(_)) == F(v)

\* a list built by a comprehension: its elements, computed once, in order
list(f) == f \o <<>>

\* len(str(x))
NoneStrLen == 4
len_str(x) ==
    CASE x.t = "text" -> Len(x.v)
      [] x.t = "None" -> NoneStrLen
      [] OTHER        -> 0

---------------------------------------------------------------------------
(* validate_review_data *)

required_fields == <<"text_", "rating">>

DefaultDays == 30
DefaultReviewCount == 1

defaults_keys == {"order_id", "purchase_id", "verified_purchase", "user_id",
                  "days_after_purchase", "user_review_count", "category"}

defaults == [k \in defaults_keys |->
    CASE k = "order_id"            -> None
      [] k = "purchase_id"         -> None
      [] k = "verified_purchase"   -> Bool(FALSE)
      [] k = "user_id"             -> Str("UNKNOWN")
      [] k = "days_after_purchase" -> Num(DefaultDays)
      [] k = "user_review_count"   -> Num(DefaultReviewCount)
      [] k = "category"            -> Str("General")]

\* a loop that also fills the fields that are present with a null
fill_defaults_and_nulls(review_data) ==
    [k \in DOMAIN review_data \cup defaults_keys |->
        IF k \in DOMAIN review_data /\ ~(k \in defaults_keys /\ review_data[k] = None)
        THEN review_data[k] ELSE defaults[k]]

\* the dict after the default-filling loop
fill_defaults(review_data) ==
    [k \in DOMAIN review_data \cup defaults_keys |->
        IF k \in DOMAIN review_data THEN review_data[k] ELSE defaults[k]]

\* a validation that requires the text alone
validate_review_data_text_only(review_data) ==
    IF required_fields[1] \notin DOMAIN review_data
    THEN Raise("ValueError", "Missing required field: text_")
    ELSE Return(fill_defaults(review_data))

\* a validation that also requires an order id
validate_review_data_strict(review_data) ==
    IF required_fields[1] \notin DOMAIN review_data
    THEN Raise("ValueError", "Missing required field: text_")
    ELSE IF required_fields[2] \notin DOMAIN review_data
    THEN Raise("ValueError", "Missing required field: rating")
    ELSE IF get(review_data, "order_id", None) = None
    THEN Raise("ValueError", "Missing required field: order_id")
    ELSE Return(fill_defaults(review_data))

validate_review_data(review_data) ==
    IF required_fields[1] \notin DOMAIN review_data
    THEN Raise("ValueError", "Missing required field: text_")
    ELSE IF required_fields[2] \notin DOMAIN review_data
    THEN Raise("ValueError", "Missing required field: rating")
    ELSE Return(fill_defaults(review_data))

\* the call as its caller sees it: the dict it passed, as the call leaves
\* it (the defaults are filled into the dict itself, which is returned), and
\* the outcome
call_validate_review_data(review_data) ==
    LET out == validate_review_data(review_data)
    IN  [review_data |-> IF out.raised THEN review_data ELSE out.value, out |-> out]

---------------------------------------------------------------------------
(* analyze_risk_factors *)

\* a reason: the message template and the values formatted into it
Reason(msg, args) == [msg |-> msg, args |-> args]

VeryLateDays == 365
HighReviewCount == 50
ShortTextLen == 50
HighFakeProbability == 700
\* ratings are held in tenths of a star: 1.0 and 5.0
ExtremeRatingLow == 10
ExtremeRatingHigh == 50
DefaultRatingRisk == 30

R_order == Reason("Missing order ID", <<>>)
R_purchase == Reason("Missing purchase ID", <<>>)
R_unverified == Reason("Unverified purchase - IDs do not match", <<>>)
R_before == Reason("Review posted before purchase (impossible timing)", <<>>)
R_late(days) == Reason("Review posted {days} days after purchase (very late)", <<days>>)
R_bot(n) == Reason("User has posted {review_count} reviews (potential bot)", <<n>>)
R_rating(r) == Reason("Extreme rating ({rating} stars)", <<r>>)
R_short == Reason("Very short review (low detail)", <<>>)
R_highprob(p) == Reason("High fake probability ({fake_probability:.1%})", <<p>>)

If(c, s) == IF c THEN s ELSE <<>>

risk_order(d) == If(isna(get(d, "order_id", None)), <<R_order>>)

risk_purchase(d) == If(isna(get(d, "purchase_id", None)), <<R_purchase>>)

risk_verified(d) == If(~truthy(get(d, "verified_purchase", Bool(TRUE))), <<R_unverified>>)

\* a timing rule that counts day 365 as very late
risk_timing_inclusive(days) ==
    IF days < 0 THEN <<R_before>>
    ELSE IF days >= VeryLateDays THEN <<R_late(days)>>
    ELSE <<>>

risk_timing(days) ==
    IF days < 0 THEN <<R_before>>
    ELSE IF days > VeryLateDays THEN <<R_late(days)>>
    ELSE <<>>

\* a count rule with a threshold of 200
risk_count_200(review_count) == If(review_count > 200, <<R_bot(review_count)>>)

risk_count(review_count) == If(review_count > HighReviewCount, <<R_bot(review_count)>>)

risk_rating(rating) ==
    If(IsNumber(rating) /\ rating.v \in {ExtremeRatingLow, ExtremeRatingHigh},
       <<R_rating(rating.v)>>)

risk_text(d) == If(len_str(get(d, "text_", Text(<<>>))) < ShortTextLen, <<R_short>>)

\* a probability rule that includes 0.7
risk_probability_inclusive(fake_probability) ==
    If(fake_probability >= HighFakeProbability, <<R_highprob(fake_probability)>>)

risk_probability(fake_probability) ==
    If(fake_probability > HighFakeProbability, <<R_highprob(fake_probability)>>)

\* an explainer that reports the probability first
analyze_risk_factors_probability_first(review_data, fake_probability) ==
    LET days == get(review_data, "days_after_purchase", Num(0))
        review_count == get(review_data, "user_review_count", Num(0))
        rating == get(review_data, "rating", Num(DefaultRatingRisk))
    IN  IF ~IsNumber(days) \/ ~IsNumber(review_count)
        THEN Raise("TypeError", "not supported between instances of 'NoneType' and 'int'")
        ELSE Return(risk_probability(fake_probability)
                    \o risk_order(review_data) \o risk_purchase(review_data)
                    \o risk_verified(review_data) \o risk_timing(days.v)
                    \o risk_count(review_count.v) \o risk_rating(rating)
                    \o risk_text(review_data))

analyze_risk_factors(review_data, fake_probability) ==
    LET days == get(review_data, "days_after_purchase", Num(0))
        review_count == get(review_data, "user_review_count", Num(0))
        rating == get(review_data, "rating", Num(DefaultRatingRisk))
    IN  IF ~IsNumber(days)
        THEN Raise("TypeError", "'<' not supported between instances of 'NoneType' and 'int'")
        ELSE IF ~IsNumber(review_count)
        THEN Raise("TypeError", "'>' not supported between instances of 'NoneType' and 'int'")
        ELSE Return(risk_order(review_data) \o risk_purchase(review_data)
                    \o risk_verified(review_data) \o risk_timing(days.v)
                    \o risk_count(review_count.v) \o risk_rating(rating)
                    \o risk_text(review_data) \o risk_probability(fake_probability))

---------------------------------------------------------------------------
(* Characters and strings (sequences of one-character strings) *)

UpperSeq == <<"A","B","C","D","E","F","G","H","I","J","K","L","M",
              "N","O","P","Q","R","S","T","U","V","W","X","Y","Z">>
LowerSeq == <<"a","b","c","d","e","f","g","h","i","j","k","l","m",
              "n","o","p","q","r","s","t","u","v","w","x","y","z">>
DigitSeq == <<"0","1","2","3","4","5","6","7","8","9">>

Range(s) == {s[i] : i \in DOMAIN s}

UpperSet == Range(UpperSeq)
LowerSet == Range(LowerSeq)
DigitSet == Range(DigitSeq)
SpaceSet == {" ", "\t", "\n"}
KeptPunct == {"!", "?", ".", ","}

isupper(c) == c \in UpperSet
isspace(c) == c \in SpaceSet
\* \w of the regular expressions used here
WordSet == LowerSet \cup UpperSet \cup DigitSet \cup {"_"}

\* str.lower on one character
lower_char(c) ==
    IF c \in UpperSet THEN LowerSeq[CHOOSE i \in DOMAIN UpperSeq : UpperSeq[i] = c] ELSE c

lower(s) == [i \in DOMAIN s |-> lower_char(s[i])]

\* the elements of s at the positions of lo..hi that are in I, in order
RECURSIVE select(_, _, _, _)
select(s, lo, hi, I) ==
    IF lo > hi THEN <<>>
    ELSE IF lo = hi THEN (IF lo \in I THEN <<s[lo]>> ELSE <<>>)
    ELSE LET mid == (lo + hi) \div 2
         IN  select(s, lo, mid, I) \o select(s, mid + 1, hi, I)

\* the characters of s that are in keep, in order
filter_chars(s, keep) == select(s, 1, Len(s), {i \in DOMAIN s : s[i] \in keep})

\* s.count(c)
count_char(s, c) == Cardinality({i \in DOMAIN s : s[i] = c})

\* whether s has the characters of pat at position i
has_at(s, i, pat) ==
    /\ i + Len(pat) - 1 <= Len(s)
    /\ \A j \in DOMAIN pat : s[i + j - 1] = pat[j]

Min(S) == CHOOSE x \in S : \A y \in S : x <= y
Max(S) == CHOOSE x \in S : \A y \in S : x >= y

\* the first position >= i that holds a character of sep, or Len(s) + 1
run_end(s, i, sep) == Min({j \in i..Len(s) : s[j] \in sep} \cup {Len(s) + 1})

\* str.strip
strip(s) ==
    LET black == {i \in DOMAIN s : ~isspace(s[i])}
    IN  IF black = {} THEN <<>> ELSE SubSeq(s, Min(black), Max(black))

---------------------------------------------------------------------------
(* ReviewFeatureExtractor.preprocess_text *)

HTTP == <<"h","t","t","p">>
WWW == <<"w","w","w">>

\* whether http\S+ or www\S+ matches at position m
url_at(s, m) ==
    \/ has_at(s, m, HTTP) /\ m + Len(HTTP) <= Len(s) /\ ~isspace(s[m + Len(HTTP)])
    \/ has_at(s, m, WWW) /\ m + Len(WWW) <= Len(s) /\ ~isspace(s[m + Len(WWW)])

\* whether the left-to-right scan of re.sub deletes position i: a match runs
\* from where the pattern matches to the next whitespace
in_url(s, i) == \E m \in 1..i : url_at(s, m) /\ \A j \in m..i : ~isspace(s[j])

\* re.sub(r'http\S+|www\S+', '', s)
remove_urls(s) == select(s, 1, Len(s), {i \in DOMAIN s : ~in_url(s, i)})

\* the characters re.sub(r'[^a-zA-Z0-9\s!?.,]', '', s) keeps
KeptChars == LowerSet \cup UpperSet \cup DigitSet \cup SpaceSet \cup KeptPunct

\* a normalizer that keeps the case of the letters
preprocess_text_keep_case(text) ==
    IF isna(text) THEN <<>>
    ELSE strip(filter_chars(remove_urls(text.v), KeptChars))

\* a normalizer that does not trim
preprocess_text_untrimmed(text) ==
    IF isna(text) THEN <<>>
    ELSE filter_chars(remove_urls(lower(text.v)), KeptChars)

preprocess_text(text) ==
    IF isna(text) THEN <<>>
    ELSE strip(filter_chars(remove_urls(lower(text.v)), KeptChars))

---------------------------------------------------------------------------
(* ReviewFeatureExtractor.extract_text_statistics                          *)
(*                                                                         *)
(* nltk's sent_tokenize and word_tokenize are modelled on the texts the    *)
(* normalizer can return and the model uses: words of letters and digits   *)
(* separated by whitespace, with ! ? . , only at the end of a word.        *)

\* an ordered dict: a sequence of items
Item(name, value) == [name |-> name, value |-> value]
Names(d) == list([i \in DOMAIN d |-> d[i].name])
Values(d) == list([i \in DOMAIN d |-> d[i].value])

\* the maximal runs in s of characters outside class, in order
runs(s, class) ==
    LET starts == {i \in DOMAIN s : s[i] \notin class /\ (i = 1 \/ s[i - 1] \in class)}
        run == [i \in DOMAIN s |->
                  IF i \in starts THEN SubSeq(s, i, run_end(s, i, class) - 1) ELSE <<>>]
    IN  select(run, 1, Len(s), starts)

\* s.split(): the maximal runs of non-whitespace characters
split(s) == runs(s, SpaceSet)

ends_sentence(chunk) == chunk[Len(chunk)] \in {".", "!", "?"}

\* len(sent_tokenize(s)): a sentence ends after a word that ends in . ! or ?
\* and is followed by more text
sentence_count(s) ==
    LET chunks == split(s)
    IN  IF chunks = <<>> THEN 0
        ELSE 1 + Cardinality({i \in 1..(Len(chunks) - 1) : ends_sentence(chunks[i])})

\* the Treebank tokens of one whitespace-free chunk, scanning from position i
\* with the characters of the current word in w
RECURSIVE chunk_tokens(_, _, _)
chunk_tokens(c, i, w) ==
    LET flush == IF w = <<>> THEN <<>> ELSE <<w>>
        final == i = Len(c)
    IN  IF i > Len(c) THEN flush
        ELSE IF c[i] \in {"!", "?"}
        THEN flush \o <<(<<c[i]>>)>> \o chunk_tokens(c, i + 1, <<>>)
        ELSE IF c[i] = "," /\ (final \/ c[i + 1] \notin DigitSet)
        THEN flush \o <<(<<c[i]>>)>> \o chunk_tokens(c, i + 1, <<>>)
        ELSE IF c[i] = "." /\ final /\ (i = 1 \/ c[i - 1] # ".")
        THEN flush \o <<(<<c[i]>>)>>
        ELSE chunk_tokens(c, i + 1, Append(w, c[i]))

\* the concatenation of the sequences ss[lo], ..., ss[hi]
RECURSIVE flatten(_, _, _)
flatten(ss, lo, hi) ==
    IF lo > hi THEN <<>>
    ELSE IF lo = hi THEN ss[lo]
    ELSE LET mid == (lo + hi) \div 2
         IN  flatten(ss, lo, mid) \o flatten(ss, mid + 1, hi)

word_tokenize(s) ==
    LET chunks == split(s)
    IN  flatten([i \in DOMAIN chunks |-> chunk_tokens(chunks[i], 1, <<>>)], 1, Len(chunks))

\* the sum of s[lo], ..., s[hi]
RECURSIVE sum_range(_, _, _)
sum_range(s, lo, hi) ==
    IF lo > hi THEN 0
    ELSE IF lo = hi THEN s[lo]
    ELSE LET mid == (lo + hi) \div 2
         IN  sum_range(s, lo, mid) + sum_range(s, mid + 1, hi)

Sum(s) == sum_range(s, 1, Len(s))

sum_len(words) == Sum([i \in DOMAIN words |-> Len(words[i])])

text_stat_names ==
    <<"review_length", "word_count", "avg_word_length", "sentence_count",
      "exclamation_count", "question_count", "caps_ratio", "unique_word_ratio">>

\* text is a string (the caller passes the normalized text); ratios and means
\* are held in hundredths
extract_text_statistics(text) ==
    IF text = <<>>
    THEN [i \in DOMAIN text_stat_names |-> Item(text_stat_names[i], 0)]
    ELSE
    LET words == word_tokenize(lower(text))
        word_count == Len(words)
        avg_word_length == IF words # <<>> THEN (sum_len(words) * 100) \div word_count ELSE 0
        caps_count == Cardinality({i \in DOMAIN text : isupper(text[i])})
        caps_ratio == IF Len(text) > 0 THEN (caps_count * 100) \div Len(text) ELSE 0
        unique_words == Range(words)
        unique_word_ratio ==
            IF word_count > 0 THEN (Cardinality(unique_words) * 100) \div word_count ELSE 0
    IN  <<Item("review_length", Len(text)),
          Item("word_count", word_count),
          Item("avg_word_length", avg_word_length),
          Item("sentence_count", sentence_count(text)),
          Item("exclamation_count", count_char(text, "!")),
          Item("question_count", count_char(text, "?")),
          Item("caps_ratio", caps_ratio),
          Item("unique_word_ratio", unique_word_ratio)>>

---------------------------------------------------------------------------
(* ReviewFeatureExtractor.extract_metadata_features *)

\* the default rating, 3.0, in tenths
DefaultRating == 30

\* int(x)
CanInt(x) == x.t \in {"bool", "num"}
int(x) == IF x.t = "bool" THEN (IF x.v THEN 1 ELSE 0) ELSE x.v

b2i(b) == IF b THEN 1 ELSE 0

\* a threshold that counts day 365 as very late
very_late_review_inclusive(days) == b2i(days >= VeryLateDays)

\* int(days > 365)
very_late_review(days) == b2i(days > VeryLateDays)

\* row: one row of the frame, a dict
extract_metadata_features(row) ==
    LET verified == get(row, "verified_purchase", Bool(FALSE))
        days == get(row, "days_after_purchase", Num(0))
        review_count == get(row, "user_review_count", Num(0))
        rating == get(row, "rating", Num(DefaultRating))
    IN  IF ~CanInt(verified)
        THEN Raise("TypeError", "int() argument must be a string, a bytes-like object or a real number, not 'NoneType'")
        ELSE IF ~IsNumber(days)
        THEN Raise("TypeError", "'<' not supported between instances of 'NoneType' and 'int'")
        ELSE IF ~IsNumber(review_count)
        THEN Raise("TypeError", "'>' not supported between instances of 'NoneType' and 'int'")
        ELSE Return(
          <<Item("verified_purchase", int(verified)),
            Item("order_id_missing", b2i(isna(get(row, "order_id", None)))),
            Item("purchase_id_missing", b2i(isna(get(row, "purchase_id", None)))),
            Item("days_after_purchase", days.v),
            Item("negative_days", b2i(days.v < 0)),
            Item("very_late_review", very_late_review(days.v)),
            Item("user_review_count", review_count.v),
            Item("high_review_count", b2i(review_count.v > HighReviewCount)),
            Item("rating", rating.v),
            Item("extreme_rating", b2i(rating.v \in {ExtremeRatingLow, ExtremeRatingHigh}))>>)

---------------------------------------------------------------------------
(* ReviewFeatureExtractor.extract_all_features                             *)
(* A frame (DataFrame) is a sequence of rows, each a dict.                 *)

\* df['text_']
text_column(df) == list([i \in DOMAIN df |-> df[i]["text_"]])

\* the rows of the combined frame, or the first exception raised
extract_all_features(df) ==
    LET meta == list([i \in DOMAIN df |-> extract_metadata_features(df[i])])
        bad == {i \in DOMAIN df : meta[i].raised}
    IN  IF df = <<>> \/ \E i \in DOMAIN df : "text_" \notin DOMAIN df[i]
        THEN Raise("KeyError", "'text_'")
        ELSE IF bad # {}
        THEN meta[CHOOSE i \in bad : \A j \in bad : i <= j]
        ELSE Return(list([i \in DOMAIN df |->
                extract_text_statistics(preprocess_text(df[i]["text_"]))
                \o meta[i].value]))

---------------------------------------------------------------------------
(* Fixed-point arithmetic *)

\* the largest r in lo..hi with r * r <= n
RECURSIVE isqrt_between(_, _, _)
isqrt_between(n, lo, hi) ==
    IF lo >= hi THEN lo
    ELSE LET mid == (lo + hi + 1) \div 2
         IN  IF mid * mid <= n THEN isqrt_between(n, mid, hi)
             ELSE isqrt_between(n, lo, mid - 1)

isqrt(n) == isqrt_between(n, 0, 46340)

\* sqrt(n) in hundredths
sqrt_hundredths(n) == IF n < 10000000 THEN isqrt(n * 100) * 10 ELSE isqrt(n) * 100

\* 100 * ln(k), k = 1..12, rounded
LnHundredths == <<0, 69, 110, 139, 161, 179, 195, 208, 220, 230, 240, 248>>

---------------------------------------------------------------------------
(* The scaler: sklearn's StandardScaler, as fit_scaler and transform_scaler *)
(* use it.  Rows are sequences of integers; mean_ and scale_ are held in   *)
(* hundredths, the scaled values in thousandths.                           *)

ScalerUnfitted == [fitted |-> FALSE]

column(rows, j) == list([i \in DOMAIN rows |-> rows[i][j]])

column_mean(xs) == (Sum(xs) * 100) \div Len(xs)

\* the population standard deviation; a zero goes to 1.0
column_scale(xs) ==
    LET n == Len(xs)
        var_num == n * Sum([i \in DOMAIN xs |-> xs[i] * xs[i]]) - Sum(xs) * Sum(xs)
    IN  IF var_num = 0 THEN 100 ELSE sqrt_hundredths(var_num) \div n

\* the population variance, in hundredths
column_var(xs) ==
    LET n == Len(xs)
        var_num == n * Sum([i \in DOMAIN xs |-> xs[i] * xs[i]]) - Sum(xs) * Sum(xs)
    IN  (var_num \div (n * n)) * 100 + ((var_num % (n * n)) * 100) \div (n * n)

StandardScaler_fit(rows) ==
    [fitted |-> TRUE,
     n_features_in_ |-> Len(rows[1]),
     mean_ |-> list([j \in DOMAIN rows[1] |-> column_mean(column(rows, j))]),
     var_ |-> list([j \in DOMAIN rows[1] |-> column_var(column(rows, j))]),
     scale_ |-> list([j \in DOMAIN rows[1] |-> column_scale(column(rows, j))])]

scale_value(sc, j, x) == ((x * 100 - sc.mean_[j]) * 1000) \div sc.scale_[j]

StandardScaler_transform(sc, rows) ==
    IF ~sc.fitted
    THEN Raise("NotFittedError", "This StandardScaler instance is not fitted yet.")
    ELSE IF rows = <<>>
    THEN Raise("ValueError", "Found array with 0 sample(s) while a minimum of 1 is required by StandardScaler.")
    ELSE IF \E i \in DOMAIN rows : Len(rows[i]) # sc.n_features_in_
    THEN Raise("ValueError", "X has a different number of features than StandardScaler is expecting")
    ELSE Return(list([i \in DOMAIN rows |->
                    list([j \in DOMAIN rows[i] |-> scale_value(sc, j, rows[i][j])])]))

\* fit_scaler: the new extractor and the outcome.  features: an outcome-free
\* frame of feature dicts
fit_scaler(extractor, features) ==
    IF features = <<>>
    THEN [extractor |-> [extractor EXCEPT !.scaler = ScalerUnfitted],
          out |-> Raise("ValueError", "Found array with 0 sample(s) while a minimum of 1 is required by StandardScaler.")]
    ELSE Let(list([i \in DOMAIN features |-> Values(features[i])]), LAMBDA rows :
         Let(StandardScaler_fit(rows), LAMBDA sc :
             [extractor |-> [extractor EXCEPT !.scaler = sc],
              out |-> StandardScaler_transform(sc, rows)]))

\* a transform that answers zeros while the scaler is missing
transform_scaler_zeros(extractor, features) ==
    IF extractor.scaler = None
    THEN Return(list([i \in DOMAIN features |-> list([j \in DOMAIN features[i] |-> 0])]))
    ELSE StandardScaler_transform(extractor.scaler,
                                  list([i \in DOMAIN features |-> Values(features[i])]))

transform_scaler(extractor, features) ==
    IF extractor.scaler = None
    THEN Raise("ValueError", "Scaler not fitted. Call fit_scaler first.")
    ELSE StandardScaler_transform(extractor.scaler,
                                  list([i \in DOMAIN features |-> Values(features[i])]))

---------------------------------------------------------------------------
(* The lexical vectorizer: sklearn's TfidfVectorizer with the parameters   *)
(* fit_tfidf gives it (stop_words='english', ngram_range=(1, 2), min_df=5, *)
(* max_df=0.8, max_features).  Terms are strings; weights in thousandths.  *)

MinDf == 5
\* max_df = 0.8 = MaxDfNum / MaxDfDen
MaxDfNum == 4
MaxDfDen == 5

W_the == <<"t","h","e">>
W_is == <<"i","s">>
W_it == <<"i","t">>
W_this == <<"t","h","i","s">>
W_very == <<"v","e","r","y">>
W_and == <<"a","n","d">>
\* the words of sklearn's English stop list that the texts of the model use
StopWords == {W_the, W_is, W_it, W_this, W_very, W_and}

\* token_pattern (?u)\b\w\w+\b: the maximal runs of word characters of
\* length 2 or more
word_runs(s) ==
    LET r == runs(s, Range(s) \ WordSet)
    IN  select(r, 1, Len(r), {i \in DOMAIN r : Len(r[i]) >= 2})

\* an analyzer that has no stop list
keep_stop_words(tokens) == tokens

remove_stop_words(tokens) ==
    select(tokens, 1, Len(tokens), {i \in DOMAIN tokens : tokens[i] \notin StopWords})

\* the unigrams followed by the bigrams
ngrams(tokens) ==
    IF tokens = <<>> THEN <<>>
    ELSE tokens \o [i \in 1..(Len(tokens) - 1) |-> tokens[i] \o <<" ">> \o tokens[i + 1]]

\* build_analyzer(): the terms of one document, with repetitions
analyze(doc) == ngrams(remove_stop_words(word_runs(lower(doc))))

term_count(terms, t) == Cardinality({i \in DOMAIN terms : terms[i] = t})

\* the order of characters and of strings
CharSeq == <<" ">> \o DigitSeq \o LowerSeq
ord(c) == CHOOSE i \in DOMAIN CharSeq : CharSeq[i] = c

RECURSIVE str_less(_, _)
str_less(a, b) ==
    IF b = <<>> THEN FALSE
    ELSE IF a = <<>> THEN TRUE
    ELSE IF Head(a) = Head(b) THEN str_less(Tail(a), Tail(b))
    ELSE ord(Head(a)) < ord(Head(b))

\* sorted(S)
RECURSIVE sorted(_)
sorted(S) ==
    IF S = {} THEN <<>>
    ELSE LET m == CHOOSE t \in S : \A u \in S : t = u \/ str_less(t, u)
         IN  <<m>> \o sorted(S \ {m})

TfidfUnfitted == [fitted |-> FALSE]

\* _limit_features: the terms kept, in vocabulary (sorted) order.  all_terms
\* is sorted; df and tfs are functions on its indices
limit_features(all_terms, df, tfs, n_doc, max_features) ==
    LET mask == {i \in DOMAIN all_terms :
                    df[i] >= MinDf /\ MaxDfDen * df[i] <= MaxDfNum * n_doc}
        \* j comes before i in the stable sort by descending total frequency
        before(j, i) == tfs[j] > tfs[i] \/ (tfs[j] = tfs[i] /\ j < i)
        top == {i \in mask : Cardinality({j \in mask : before(j, i)}) < max_features}
    IN  IF Cardinality(mask) > max_features THEN top ELSE mask

\* the document frequency of the vocabulary term t
df_of(all_terms, df, t) == df[CHOOSE i \in DOMAIN all_terms : all_terms[i] = t]

\* TfidfVectorizer(...).fit(docs): the fitted vectorizer, or the exception
TfidfVectorizer_fit(docs, max_features) ==
    Let(Len(docs), LAMBDA n_doc :
    Let(list([d \in DOMAIN docs |-> analyze(docs[d])]), LAMBDA terms :
    Let(sorted(UNION {Range(terms[d]) : d \in DOMAIN docs}), LAMBDA all_terms :
    Let(list([i \in DOMAIN all_terms |->
           Cardinality({d \in DOMAIN docs : term_count(terms[d], all_terms[i]) > 0})]),
        LAMBDA df :
    Let(list([i \in DOMAIN all_terms |->
           Sum([d \in DOMAIN docs |-> term_count(terms[d], all_terms[i])])]),
        LAMBDA tfs :
    Let(limit_features(all_terms, df, tfs, n_doc, max_features), LAMBDA kept :
    Let(sorted({all_terms[i] : i \in kept}), LAMBDA vocabulary :
        IF all_terms = <<>>
        THEN Raise("ValueError", "empty vocabulary; perhaps the documents only contain stop words")
        ELSE IF MaxDfNum * n_doc < MaxDfDen * MinDf
        THEN Raise("ValueError", "max_df corresponds to < documents than min_df")
        ELSE IF kept = {}
        THEN Raise("ValueError", "After pruning, no terms remain. Try a lower min_df or a higher max_df.")
        ELSE Return([fitted |-> TRUE,
                     vocabulary_ |-> vocabulary,
                     idf_ |-> list([j \in DOMAIN vocabulary |->
                                 LnHundredths[1 + n_doc]
                                 - LnHundredths[1 + df_of(all_terms, df, vocabulary[j])]
                                 + 100])]))))))))

\* one row of the tf-idf matrix, l2-normalized
tfidf_row(vec, doc) ==
    Let(analyze(doc), LAMBDA terms :
    Let(list([j \in DOMAIN vec.vocabulary_ |->
           term_count(terms, vec.vocabulary_[j]) * vec.idf_[j]]), LAMBDA w :
    Let(isqrt(Sum([j \in DOMAIN w |-> w[j] * w[j]])), LAMBDA norm :
        list([j \in DOMAIN w |-> IF norm = 0 THEN 0 ELSE (w[j] * 1000) \div norm]))))

TfidfVectorizer_transform(vec, docs) ==
    IF ~vec.fitted
    THEN Raise("NotFittedError", "The TF-IDF vectorizer is not fitted")
    ELSE IF docs = <<>>
    THEN Raise("ValueError", "Found array with 0 sample(s) while a minimum of 1 is required by TfidfTransformer.")
    ELSE Return(list([d \in DOMAIN docs |-> tfidf_row(vec, docs[d])]))

\* fit_tfidf: the new extractor and the outcome.  texts: a column of values
fit_tfidf(extractor, texts) ==
    Let(list([i \in DOMAIN texts |-> preprocess_text(texts[i])]), LAMBDA cleaned_texts :
    Let(TfidfVectorizer_fit(cleaned_texts, extractor.max_tfidf_features), LAMBDA fit :
        IF fit.raised
        THEN [extractor |-> [extractor EXCEPT !.tfidf_vectorizer = TfidfUnfitted],
              out |-> fit]
        ELSE [extractor |-> [extractor EXCEPT !.tfidf_vectorizer = fit.value],
              out |-> TfidfVectorizer_transform(fit.value, cleaned_texts)]))

transform_tfidf(extractor, texts) ==
    IF extractor.tfidf_vectorizer = None
    THEN Raise("ValueError", "TF-IDF vectorizer not fitted. Call fit_tfidf first.")
    ELSE TfidfVectorizer_transform(extractor.tfidf_vectorizer,
                                   list([i \in DOMAIN texts |-> preprocess_text(texts[i])]))

---------------------------------------------------------------------------
(* prepare_features *)

\* a concatenation that puts the lexical block first
hstack_lexical_first(a, b) == list([i \in DOMAIN a |-> b[i] \o a[i]])

\* np.hstack([a, b]) on two matrices of as many rows
hstack(a, b) == list([i \in DOMAIN a |-> a[i] \o b[i]])

\* an inference branch that fits the vectorizer on the texts it is given
refit_tfidf(extractor, texts) == fit_tfidf(extractor, texts)

\* the inference branch's two calls on the extractor, each with the extractor
\* it leaves
inference_tfidf(extractor, texts) ==
    [extractor |-> extractor, out |-> transform_tfidf(extractor, texts)]

inference_scaler(extractor, features) ==
    [extractor |-> extractor, out |-> transform_scaler(extractor, features)]

\* the new extractor and the outcome: the feature matrix and the names of
\* the statistical columns, or the exception raised
prepare_features(df, extractor, is_training) ==
    Let(extract_all_features(df), LAMBDA statistical_features :
        IF extractor = None
        THEN [extractor |-> extractor,
              out |-> Raise("AttributeError", "'NoneType' object has no attribute 'extract_all_features'")]
        ELSE IF statistical_features.raised
        THEN [extractor |-> extractor, out |-> statistical_features]
        ELSE IF is_training
        THEN Let(fit_tfidf(extractor, text_column(df)), LAMBDA t :
             Let(fit_scaler(t.extractor, statistical_features.value), LAMBDA sc :
                 IF t.out.raised THEN t
                 ELSE IF sc.out.raised THEN sc
                 ELSE [extractor |-> sc.extractor,
                       out |-> Return([features |-> hstack(sc.out.value, t.out.value),
                                       names |-> Names(statistical_features.value[1])])]))
        ELSE Let(inference_tfidf(extractor, text_column(df)), LAMBDA t :
             Let(inference_scaler(t.extractor, statistical_features.value), LAMBDA sc :
                 IF t.out.raised THEN t
                 ELSE IF sc.out.raised THEN sc
                 ELSE [extractor |-> sc.extractor,
                       out |-> Return([features |-> hstack(sc.out.value, t.out.value),
                                       names |-> Names(statistical_features.value[1])])])))

---------------------------------------------------------------------------
(* The classifier: sklearn's RandomForestClassifier as the prediction      *)
(* functions use it.  A fitted forest is a sequence of trees; a tree tests *)
(* one column of the feature vector against a threshold and holds, in each *)
(* leaf, the share of class 1 (fake) in thousandths.                       *)

Tree(feature, threshold, left, right) ==
    [feature |-> feature, threshold |-> threshold, left |-> left, right |-> right]

tree_proba(tree, x) == IF x[tree.feature] <= tree.threshold THEN tree.left ELSE tree.right

\* predict_proba for one row: [P(class 0), P(class 1)], the mean over the trees
forest_proba(m, x) ==
    LET p1 == Sum([k \in DOMAIN m.estimators_ |-> tree_proba(m.estimators_[k], x)])
              \div Len(m.estimators_)
    IN  <<1000 - p1, p1>>

\* np.argmax over the two classes: class 1 only when its probability is larger
argmax(p) == IF p[2] > p[1] THEN 1 ELSE 0

\* model.feature_importances_ of a forest of one-split trees, in
\* thousandths: the share of the trees that split on the column
feature_importances_(m) ==
    list([j \in 1..m.n_features_in_ |->
            (Cardinality({k \in DOMAIN m.estimators_ : m.estimators_[k].feature = j}) * 1000)
                \div Len(m.estimators_)])

check_predict(m, X) ==
    IF m = None
    THEN Raise("AttributeError", "'NoneType' object has no attribute 'predict'")
    ELSE IF \E i \in DOMAIN X : Len(X[i]) # m.n_features_in_
    THEN Raise("ValueError", "X has a different number of features than RandomForestClassifier is expecting")
    ELSE Return(TRUE)

\* model.predict(X)
predict(m, X) ==
    Let(check_predict(m, X), LAMBDA checked :
    IF checked.raised THEN checked
    ELSE Return(list([i \in DOMAIN X |-> argmax(forest_proba(m, X[i]))])))

\* model.predict_proba(X)
predict_proba(m, X) ==
    Let(check_predict(m, X), LAMBDA checked :
    IF checked.raised THEN checked
    ELSE Return(list([i \in DOMAIN X |-> forest_proba(m, X[i])])))

---------------------------------------------------------------------------
(* predict_single_review *)

SuspiciousProbability == 300

\* a policy that also calls the boundary probability suspicious
decide_status_inclusive(prediction, fake_probability) ==
    IF prediction = 1 THEN "FAKE"
    ELSE IF fake_probability >= SuspiciousProbability THEN "SUSPICIOUS"
    ELSE "GENUINE"

\* a policy that reads the probability alone
decide_status_by_probability(prediction, fake_probability) ==
    IF fake_probability > HighFakeProbability THEN "FAKE"
    ELSE IF fake_probability > SuspiciousProbability THEN "SUSPICIOUS"
    ELSE "GENUINE"

decide_status(prediction, fake_probability) ==
    IF prediction = 1 THEN "FAKE"
    ELSE IF fake_probability > SuspiciousProbability THEN "SUSPICIOUS"
    ELSE "GENUINE"

decide_label(prediction) == IF prediction = 1 THEN "FAKE" ELSE "GENUINE"

max2(p) == IF p[1] >= p[2] THEN p[1] ELSE p[2]

\* the features of the one-row frame: inference never fits
single_features(review_data, extractor) ==
    IF extractor = None
    THEN Raise("AttributeError", "'NoneType' object has no attribute 'prepare_features'")
    ELSE prepare_features(<<review_data>>, extractor, FALSE).out

\* lines 39-61: the result for the feature matrix of the one-row frame
single_result(review_data, m, features) ==
    Let(predict(m, features), LAMBDA prediction :
    Let(predict_proba(m, features), LAMBDA probabilities :
    Let(analyze_risk_factors(review_data, probabilities.value[1][2]), LAMBDA risk_factors :
        IF prediction.raised THEN prediction
        ELSE IF risk_factors.raised THEN risk_factors
        ELSE Return([prediction |-> decide_label(prediction.value[1]),
                     status |-> decide_status(prediction.value[1], probabilities.value[1][2]),
                     confidence |-> max2(probabilities.value[1]),
                     fake_probability |-> probabilities.value[1][2],
                     genuine_probability |-> probabilities.value[1][1],
                     risk_factors |-> risk_factors.value]))))

predict_single_review(review_data, m, extractor) ==
    Let(single_features(review_data, extractor), LAMBDA features :
        IF features.raised THEN features
        ELSE single_result(review_data, m, features.value.features))

---------------------------------------------------------------------------
(* predict_bulk_reviews.  reviews_df: a frame whose rows hold no nulls.    *)

\* the row with the columns cols added or replaced
with_columns(row, cols) ==
    [k \in DOMAIN row \cup DOMAIN cols |-> IF k \in DOMAIN cols THEN cols[k] ELSE row[k]]

\* a result frame whose confidence is the probability of the fake class
bulk_result_fake_confidence(reviews_df, m, features) ==
    Let(predict(m, features), LAMBDA predictions :
    Let(predict_proba(m, features), LAMBDA probabilities :
        IF predictions.raised THEN predictions
        ELSE Return(list([i \in DOMAIN reviews_df |->
                 with_columns(reviews_df[i],
                     [prediction |-> decide_label(predictions.value[i]),
                      fake_probability |-> probabilities.value[i][2],
                      genuine_probability |-> probabilities.value[i][1],
                      confidence |-> probabilities.value[i][2]])]))))

\* lines 79-90: the result frame for the feature matrix of reviews_df
bulk_result(reviews_df, m, features) ==
    Let(predict(m, features), LAMBDA predictions :
    Let(predict_proba(m, features), LAMBDA probabilities :
        IF predictions.raised THEN predictions
        ELSE Return(list([i \in DOMAIN reviews_df |->
                 with_columns(reviews_df[i],
                     [prediction |-> decide_label(predictions.value[i]),
                      fake_probability |-> probabilities.value[i][2],
                      genuine_probability |-> probabilities.value[i][1],
                      confidence |-> max2(probabilities.value[i])])]))))

predict_bulk_reviews(reviews_df, m, extractor) ==
    Let(prepare_features(reviews_df, extractor, FALSE).out, LAMBDA features :
        IF features.raised THEN features
        ELSE bulk_result(reviews_df, m, features.value.features))

\* the call as its caller sees it: the frame it passed, as the call leaves
\* it (the columns are added to reviews_df.copy()), and the outcome
call_predict_bulk_reviews(reviews_df, m, extractor) ==
    [reviews_df |-> reviews_df, out |-> predict_bulk_reviews(reviews_df, m, extractor)]

---------------------------------------------------------------------------
(* get_feature_importance *)

\* a list in which the two identifier columns are exchanged
statistical_feature_names_exchanged ==
    <<"review_length", "word_count", "avg_word_length", "sentence_count",
      "exclamation_count", "question_count", "caps_ratio", "unique_word_ratio",
      "verified_purchase", "purchase_id_missing", "order_id_missing",
      "days_after_purchase", "negative_days", "very_late_review",
      "user_review_count", "high_review_count", "rating", "extreme_rating">>

\* the names of the statistical columns, as get_feature_importance lists
\* them
statistical_feature_names ==
    <<"review_length", "word_count", "avg_word_length", "sentence_count",
      "exclamation_count", "question_count", "caps_ratio", "unique_word_ratio",
      "verified_purchase", "order_id_missing", "purchase_id_missing",
      "days_after_purchase", "negative_days", "very_late_review",
      "user_review_count", "high_review_count", "rating", "extreme_rating">>

\* the names of the lexical columns: get_feature_names_out() of a fitted
\* vectorizer, else tfidf_0, tfidf_1, ...
tfidf_feature_names(vectorizer, n) ==
    IF vectorizer # None /\ vectorizer.fitted
    THEN [i \in DOMAIN vectorizer.vocabulary_ |-> Text(vectorizer.vocabulary_[i])]
    ELSE [i \in 1..n |-> [t |-> "tfidf_", v |-> i - 1]]

\* sort_values('importance', ascending=False), rows of equal importance in
\* the order they had
sort_by_importance(rows) ==
    LET before(j, i) == rows[j].importance > rows[i].importance
                        \/ (rows[j].importance = rows[i].importance /\ j < i)
        place(i) == 1 + Cardinality({j \in DOMAIN rows : before(j, i)})
    IN  list([n \in DOMAIN rows |-> rows[CHOOSE i \in DOMAIN rows : place(i) = n]])

\* the importance frame, None for a model without importances, or the
\* exception
get_feature_importance(m, extractor) ==
    IF m = None THEN Return(None)
    ELSE IF extractor = None
    THEN Raise("AttributeError", "'NoneType' object has no attribute 'tfidf_vectorizer'")
    ELSE Let(feature_importances_(m), LAMBDA importances :
         Let([i \in DOMAIN statistical_feature_names |-> Str(statistical_feature_names[i])]
             \o tfidf_feature_names(extractor.tfidf_vectorizer,
                                    IF Len(importances) > Len(statistical_feature_names)
                                    THEN Len(importances) - Len(statistical_feature_names)
                                    ELSE 0),
             LAMBDA all_features :
             IF Len(all_features) < Len(importances)
             THEN Raise("ValueError", "All arrays must be of the same length")
             ELSE Return(sort_by_importance(
                      list([i \in DOMAIN importances |->
                              [feature |-> all_features[i], importance |-> importances[i]]])))))

---------------------------------------------------------------------------
(* The /predict and /predict/batch handlers.  data: the request's JSON; a  *)
(* review is a dict, anything else is a tagged value.                      *)

Response(code, body) == [code |-> code, body |-> body]
Error(msg) == [error |-> msg]
\* f'Prediction failed: {str(e)}': the prefix and str(e)
Failed(prefix, exc) == [error |-> prefix, detail |-> exc.msg]

IsDict(x) == "t" \notin DOMAIN x

\* validate_review_data then predict_single_review, as both handlers call them
validate_and_predict(review, m, extractor) ==
    IF ~IsDict(review)
    THEN Raise("TypeError", "argument of type 'int' is not iterable")
    ELSE Let(validate_review_data(review), LAMBDA review_data :
             IF review_data.raised THEN review_data
             ELSE predict_single_review(review_data.value, m, extractor))

predict_review(data, m, extractor) ==
    IF m = None \/ extractor = None
    THEN Response(500, Error("Model not loaded"))
    ELSE IF DOMAIN data = {}
    THEN Response(400, Error("No data provided"))
    ELSE IF "text_" \notin DOMAIN data
    THEN Response(400, Error("Missing required field: text_"))
    ELSE IF "rating" \notin DOMAIN data
    THEN Response(400, Error("Missing required field: rating"))
    ELSE Let(validate_and_predict(data, m, extractor), LAMBDA result :
             IF result.raised
             THEN Response(500, Failed("Prediction failed: ", result.value))
             ELSE Response(200, result.value))

\* one entry of the batch's result list
batch_entry(review, m, extractor) ==
    Let(validate_and_predict(review, m, extractor), LAMBDA result :
        IF result.raised THEN Error(result.value.msg) ELSE result.value)

\* a handler that stops at the first review that fails
predict_batch_abort(reviews, m, extractor) ==
    IF m = None \/ extractor = None
    THEN Response(500, Error("Model not loaded"))
    ELSE IF Len(reviews) = 0
    THEN Response(400, Error("Empty reviews list"))
    ELSE IF \E i \in DOMAIN reviews : validate_and_predict(reviews[i], m, extractor).raised
    THEN Response(500, Error("Batch prediction failed"))
    ELSE Response(200, [total |-> Len(reviews),
                        results |-> list([i \in DOMAIN reviews |->
                                        batch_entry(reviews[i], m, extractor)])])

\* reviews: the list data['reviews']
predict_batch(reviews, m, extractor) ==
    IF m = None \/ extractor = None
    THEN Response(500, Error("Model not loaded"))
    ELSE IF Len(reviews) = 0
    THEN Response(400, Error("Empty reviews list"))
    ELSE Response(200, [total |-> Len(reviews),
                        results |-> list([i \in DOMAIN reviews |->
                                        batch_entry(reviews[i], m, extractor)])])

---------------------------------------------------------------------------
(* load_trained_model and the module-level load of the route modules.  A   *)
(* file is Missing, Corrupt or the pickle of an object.                    *)

Corrupt == [t |-> "corrupt"]
Pickle(obj) == [t |-> "pickle", obj |-> obj]

\* joblib.load(path)
joblib_load(file) ==
    IF file = Missing THEN Raise("FileNotFoundError", "No such file or directory")
    ELSE IF file = Corrupt THEN Raise("UnpicklingError", "invalid load key")
    ELSE Return(file.obj)

\* model_dir: the two files of the directory
load_trained_model(model_dir) ==
    Let(joblib_load(model_dir.model), LAMBDA m :
    Let(joblib_load(model_dir.extractor), LAMBDA e :
        IF m.raised THEN Raise("Exception", <<"Error loading model: ", m.value.msg>>)
        ELSE IF e.raised THEN Raise("Exception", <<"Error loading model: ", e.value.msg>>)
        ELSE Return([model |-> m.value, extractor |-> e.value])))

\* the try/except around the load at the top of routes/predict.py and
\* routes/bulk.py: the module's model and feature_extractor
module_load(model_dir) ==
    Let(load_trained_model(model_dir), LAMBDA loaded :
        IF loaded.raised THEN [model |-> None, extractor |-> None] ELSE loaded.value)

---------------------------------------------------------------------------
(* The /bulk/upload handler.  request: Absent when the request carries no  *)
(* 'file' part, else the file: its name (a sequence of characters) and its *)
(* content, which is of a format ("csv", "xlsx" or neither) and holds the  *)
(* frame a reader of that format parses from it: columns and rows.         *)

ALLOWED_EXTENSIONS == {<<"c","s","v">>, <<"x","l","s","x">>}

\* filename.rsplit('.', 1)[1]
extension(filename) ==
    SubSeq(filename, Max({i \in DOMAIN filename : filename[i] = "."}) + 1, Len(filename))

allowed_file(filename) ==
    /\ "." \in Range(filename)
    /\ lower(extension(filename)) \in ALLOWED_EXTENSIONS

\* str.endswith
endswith(s, suffix) ==
    Len(s) >= Len(suffix) /\ SubSeq(s, Len(s) - Len(suffix) + 1, Len(s)) = suffix

\* pd.read_csv / pd.read_excel on the uploaded file
read_csv(content) ==
    IF content.format = "csv" THEN Return([columns |-> content.columns, rows |-> content.rows])
    ELSE Raise("UnicodeDecodeError", "'utf-8' codec can't decode byte")
read_excel(content) ==
    IF content.format = "xlsx" THEN Return([columns |-> content.columns, rows |-> content.rows])
    ELSE Raise("ValueError", "Excel file format cannot be determined, you must specify an engine manually.")

\* the values given to the optional columns the file lacks
bulk_defaults == [k \in defaults_keys |->
    CASE k = "order_id"            -> None
      [] k = "purchase_id"         -> None
      [] k = "verified_purchase"   -> Bool(FALSE)
      [] k = "user_id"             -> Str("UNKNOWN")
      [] k = "days_after_purchase" -> Num(30)
      [] k = "user_review_count"   -> Num(1)
      [] k = "category"            -> Str("General")]

\* the rows after df[column] = default for every optional column not in df
fill_columns(df) ==
    list([i \in DOMAIN df.rows |->
        [k \in df.columns \cup defaults_keys |->
            IF k \in df.columns THEN df.rows[i][k] ELSE bulk_defaults[k]]])

PreviewRows == 100

\* round(count / total * 100, 2), in hundredths of a percent (no tie arises
\* for the totals of the frames used here)
percentage(count, total) == (2 * 10000 * count + total) \div (2 * total)

\* one entry of results_preview
preview_entry(row) ==
    [text |-> row["text_"], rating |-> row["rating"], prediction |-> row["prediction"],
     confidence |-> row["confidence"], fake_probability |-> row["fake_probability"],
     genuine_probability |-> row["genuine_probability"]]

\* lines 103-135: the summary of the result frame
bulk_summary(result_df, file_id) ==
    Let(Len(result_df), LAMBDA total :
    Let(Cardinality({i \in DOMAIN result_df : result_df[i]["prediction"] = "FAKE"}),
        LAMBDA fake_count :
    Let(Cardinality({i \in DOMAIN result_df : result_df[i]["prediction"] = "GENUINE"}),
        LAMBDA genuine_count :
        [total |-> total,
         fake_count |-> fake_count,
         genuine_count |-> genuine_count,
         fake_percentage |-> percentage(fake_count, total),
         genuine_percentage |-> percentage(genuine_count, total),
         results_preview |-> list([i \in 1..(IF total < PreviewRows THEN total ELSE PreviewRows) |->
                                      preview_entry(result_df[i])]),
         download_id |-> file_id])))

\* the handler's answer without a file written
Answer(code, body) == [response |-> Response(code, body), saved |-> Absent]

\* lines 70-135, from the reading of the file on: the answer, and the
\* result frame written to the temporary file file_id
bulk_process(file, m, extractor, file_id) ==
    Let(IF endswith(file.filename, <<".","c","s","v">>)
        THEN read_csv(file.content) ELSE read_excel(file.content), LAMBDA df :
        IF df.raised
        THEN Answer(500, Failed("Bulk processing failed: ", df.value))
        ELSE IF "text_" \notin df.value.columns
        THEN Answer(400, Error("Missing required column: text_"))
        ELSE IF "rating" \notin df.value.columns
        THEN Answer(400, Error("Missing required column: rating"))
        ELSE Let(IF df.value.rows = <<>>
                 THEN Raise("ValueError", "Found array with 0 sample(s) while a minimum of 1 is required by TfidfTransformer.")
                 ELSE predict_bulk_reviews(fill_columns(df.value), m, extractor),
                 LAMBDA result_df :
                 IF result_df.raised
                 THEN Answer(500, Failed("Bulk processing failed: ", result_df.value))
                 ELSE [response |-> Response(200, bulk_summary(result_df.value, file_id)),
                       saved |-> result_df.value]))

\* file_id: the name NamedTemporaryFile gives to the file it creates
upload_bulk_reviews(request, m, extractor, file_id) ==
    IF m = None \/ extractor = None
    THEN Answer(500, Error("Model not loaded"))
    ELSE IF request = Absent
    THEN Answer(400, Error("No file provided"))
    ELSE IF request.filename = <<>>
    THEN Answer(400, Error("No file selected"))
    ELSE IF ~allowed_file(request.filename)
    THEN Answer(400, Error("Invalid file type. Only CSV and XLSX allowed"))
    ELSE bulk_process(request, m, extractor, file_id)

---------------------------------------------------------------------------
(* Inputs *)

\* s repeated n times
RECURSIVE Rep(_, _)
Rep(s, n) == IF n = 0 THEN <<>> ELSE s \o Rep(s, n - 1)

W_great == <<"g","r","e","a","t">>
W_product == <<"p","r","o","d","u","c","t">>
W_bad == <<"b","a","d">>
W_buy == <<"b","u","y">>
W_good == <<"g","o","o","d">>
SP == <<" ">>

T_great == <<"G">> \o Tail(W_great) \o SP \o W_product \o <<"!">>
T_200 == Rep(W_good \o SP, 40)
T_50 == Rep(W_good \o SP, 10)
T_49 == SubSeq(T_50, 1, 49)
T_url == W_buy \o SP \o HTTP \o <<":","/","/","x",".","c","o">> \o SP \o <<"N","O","W","?">>

Keys == {"text_", "rating"} \cup defaults_keys

\* the dict holding the keys of f that are not Absent
Dict(f) == [k \in {k \in DOMAIN f : f[k] # Absent} |-> f[k]]

Review(text, rating, order_id, purchase_id, verified, days, review_count, user_id, category) ==
    Dict([k \in Keys |->
        CASE k = "text_"               -> text
          [] k = "rating"              -> rating
          [] k = "order_id"            -> order_id
          [] k = "purchase_id"         -> purchase_id
          [] k = "verified_purchase"   -> verified
          [] k = "days_after_purchase" -> days
          [] k = "user_review_count"   -> review_count
          [] k = "user_id"             -> user_id
          [] k = "category"            -> category])

ORD == Str("ORD-2024-12345")
PUR == Str("PUR-ABC123")
USER == Str("USER-12345")
CAT == Str("Electronics")

\* the records of the two end-to-end scenarios
Scenario1 ==
    Review(Text(T_great), Num(50), None, Absent, Bool(FALSE), Num(-3), Num(200), Absent, Absent)
Scenario2 ==
    Review(Text(T_200), Num(40), ORD, PUR, Bool(TRUE), Num(10), Num(3), Absent, Absent)

\* a review without anomalies, one without text, one whose days are null
ValidReview == Review(Text(T_url), Num(40), ORD, PUR, Bool(TRUE), Num(10), Num(3), Absent, Absent)
NoTextReview == Review(Absent, Num(40), ORD, PUR, Bool(TRUE), Num(10), Num(3), Absent, Absent)
NullDaysReview == Review(Text(T_great), Num(40), ORD, PUR, Bool(TRUE), None, Num(3), Absent, Absent)

\* the reviews given to analyze_risk_factors: every combination of the
\* values on both sides of each condition
RiskReviews ==
    {Review(text, rating, o, p, v, d, c, Absent, Absent) :
        text \in {Absent, Text(T_49), Text(T_50)},
        rating \in {Num(10), Num(40), Num(50)},
        o \in {Absent, None, Str(""), ORD},
        p \in {None, PUR},
        v \in {Bool(TRUE), Bool(FALSE)},
        d \in {None, Num(-3), Num(0), Num(365), Num(366)},
        c \in {Num(50), Num(51)}}
    \cup {Scenario1, Scenario2, fill_defaults(Scenario1)}

RiskProbabilities == {300, 700, 701}

\* the requests given to the prediction functions: each optional field
\* present or absent, the required ones present, absent or null
Optional(present, v) == IF present THEN v ELSE Absent

PredictReviews ==
    {Review(Text(T_great), Num(40), Optional(o, ORD), Optional(p, PUR),
            Optional(v, Bool(TRUE)), Optional(d, Num(10)), Optional(c, Num(3)),
            Optional(u, USER), Optional(g, CAT)) :
        o \in BOOLEAN, p \in BOOLEAN, v \in BOOLEAN, d \in BOOLEAN,
        c \in BOOLEAN, u \in BOOLEAN, g \in BOOLEAN}
    \cup {Review(text, rating, None, PUR, Bool(FALSE), d, Num(51), Absent, Absent) :
            text \in {Absent, None, Text(T_url)},
            rating \in {Absent, Num(10)},
            d \in {Absent, None, Num(-3), Num(366)}}
    \cup {Review(Text(T_url), Num(rating), o, p, Bool(TRUE), Num(d), Num(3), USER, CAT) :
            rating \in {10, 40, 50}, o \in {None, ORD}, p \in {None, PUR}, d \in {-3, 10}}
    \cup {Scenario1, Scenario2, Dict([k \in {} |-> Absent])}


\* a row of a training frame: every column present
Row(text, rating, order_id, purchase_id, verified, days, review_count) ==
    Review(Text(text), Num(rating), order_id, purchase_id, Bool(verified),
           Num(days), Num(review_count), USER, CAT)

T_great_product == W_great \o SP \o W_product
T_great_buy == W_great \o SP \o W_buy
T_bad_product == W_bad \o SP \o W_product
T_bad_buy == W_bad \o SP \o W_buy
T_the_product_is_bad == W_the \o SP \o W_product \o SP \o W_is \o SP \o W_bad

\* a training frame whose vocabulary is "great", "product"
DS_A ==
    <<Row(T_great_product, 50, None, None, FALSE, -3, 60),
      Row(T_great_product, 50, ORD, PUR, TRUE, 10, 3),
      Row(T_great_product \o <<"!">>, 40, ORD, PUR, TRUE, 20, 5),
      Row(T_great_buy, 40, ORD, PUR, TRUE, 5, 2),
      Row(T_great_buy, 10, None, PUR, FALSE, -1, 51),
      Row(T_bad_product, 10, ORD, PUR, TRUE, 30, 1),
      Row(T_bad_buy, 30, ORD, PUR, TRUE, 7, 4),
      Row(T_the_product_is_bad, 20, ORD, None, FALSE, 100, 8)>>

\* a training frame whose vocabulary is "great", "great product", "product"
DS_B ==
    [i \in DOMAIN DS_A |->
        [DS_A[i] EXCEPT !["text_"] =
            Text(IF i <= 5 THEN T_great_product ELSE IF i <= 7 THEN T_bad_buy ELSE T_great_buy)]]

\* a training frame with a stop word in 5 documents of 8, "product" in 7 of 8
\* and "bad" and "buy" in fewer than 5; its vocabulary is "great",
\* "great product"
T_the_great_product == W_the \o SP \o T_great_product
DS_C ==
    [i \in DOMAIN DS_A |->
        [DS_A[i] EXCEPT !["text_"] =
            Text(IF i <= 5 THEN T_the_great_product ELSE IF i <= 7 THEN T_bad_product ELSE T_bad_buy)]]

\* too few documents for min_df = 5 under max_df = 0.8
DS_small == SubSeq(DS_A, 1, 3)

TrainFrames == {DS_A, DS_B, DS_C, DS_small}

Forest(n, trees) == [n_features_in_ |-> n, estimators_ |-> trees]

\* the values of max_tfidf_features: a small one, and the one train_model.py uses
MaxFeaturesChoices == {2, 30}

---------------------------------------------------------------------------
(* The extractor's life: one ReviewFeatureExtractor, constructed empty,    *)
(* and the calls made on it, one at a time.                                *)

Call(op, args, out) == [op |-> op, args |-> args, out |-> out]
NoCall == Call("idle", <<>>, None)

NoCalls == <<>>

\* ReviewFeatureExtractor(max_tfidf_features)
ReviewFeatureExtractor(max_tfidf_features) ==
    [max_tfidf_features |-> max_tfidf_features,
     tfidf_vectorizer |-> None,
     scaler |-> None]

Init ==
    /\ \E k \in MaxFeaturesChoices : feature_extractor = ReviewFeatureExtractor(k)
    /\ model = None
    /\ last = NoCall
    /\ calls = NoCalls
    /\ files = EmptyDisk
    /\ bulk = Unimported
    /\ analytics_df = Unimported

Ready == last = NoCall

PrepareFeatures(df, is_training) ==
    /\ Ready
    /\ LET r == prepare_features(df, feature_extractor, is_training)
       IN  /\ feature_extractor' = r.extractor
           /\ last' = Call("prepare_features", <<df, is_training>>, r.out)
    /\ UNCHANGED <<analytics_df, files, bulk, model, calls>>

FitTfidf(texts) ==
    /\ Ready
    /\ LET r == fit_tfidf(feature_extractor, texts)
       IN  /\ feature_extractor' = r.extractor
           /\ last' = Call("fit_tfidf", <<texts>>, r.out)
    /\ UNCHANGED <<analytics_df, files, bulk, model, calls>>

FitScaler(features) ==
    /\ Ready
    /\ LET r == fit_scaler(feature_extractor, features)
       IN  /\ feature_extractor' = r.extractor
           /\ last' = Call("fit_scaler", <<features>>, r.out)
    /\ UNCHANGED <<analytics_df, files, bulk, model, calls>>

TransformTfidf(texts) ==
    /\ Ready
    /\ last' = Call("transform_tfidf", <<texts>>, transform_tfidf(feature_extractor, texts))
    /\ UNCHANGED <<analytics_df, files, bulk, feature_extractor, model, calls>>

TransformScaler(features) ==
    /\ Ready
    /\ last' = Call("transform_scaler", <<features>>,
                    transform_scaler(feature_extractor, features))
    /\ UNCHANGED <<analytics_df, files, bulk, feature_extractor, model, calls>>

\* the caller has the outcome of the call; the next call can be made
Returned ==
    /\ ~Ready
    /\ last' = NoCall
    /\ UNCHANGED <<analytics_df, files, bulk, feature_extractor, model, calls>>

PreprocessText(text) ==
    /\ Ready
    /\ last' = Call("preprocess_text", <<text>>, Return(preprocess_text(text)))
    /\ UNCHANGED <<analytics_df, files, bulk, feature_extractor, model, calls>>

\* text: a string; None and NaN are told apart from strings first
ExtractTextStatistics(text) ==
    /\ Ready
    /\ last' = Call("extract_text_statistics", <<text>>,
                    Return(extract_text_statistics(IF isna(text) THEN <<>> ELSE text.v)))
    /\ UNCHANGED <<analytics_df, files, bulk, feature_extractor, model, calls>>

ExtractMetadataFeatures(row) ==
    /\ Ready
    /\ last' = Call("extract_metadata_features", <<row>>, extract_metadata_features(row))
    /\ UNCHANGED <<analytics_df, files, bulk, feature_extractor, model, calls>>

ExtractAllFeatures(df) ==
    /\ Ready
    /\ last' = Call("extract_all_features", <<df>>, extract_all_features(df))
    /\ UNCHANGED <<analytics_df, files, bulk, feature_extractor, model, calls>>

\* the texts given to the normalizer: every text of at most MaxTextLen
\* characters over a letter of each case, a space, a punctuation mark that is
\* kept and a character that is not, and texts with URLs
MaxTextLen == 3
TextAlphabet == {"A", "b", " ", "!", "@"}
ShortTexts == UNION {[1..n -> TextAlphabet] : n \in 0..MaxTextLen}
UrlTexts ==
    {<<"h","t","t","p",":","/","/","x",".","c","o">>,
     <<"s","e","e"," ","h","t","t","p",":","/","/","x",".","c","o"," ","n","o","w">>,
     <<"h","t","@","t","p",":","/","/","x">>,
     <<"h","t","t","p">>,
     <<"w","w","w">>,
     <<"s","e","e","h","t","t","p",":","/","/","x"," ","y">>,
     <<"w","w","w",".","x",".","c","o">>,
     <<"a","w","w","w",".","x">>,
     <<"H","T","T","P",":","/","/","X",".","C","O">>,
     <<"w","@","w","w",".","x"," ","g","o">>,
     <<" "," ","H","e","l","l","o",","," ","W","o","r","l","d","!"," "," ">>,
     <<"\t","T","a","b","\n">>,
     <<"@"," ","a">>,
     <<"B","u","y"," ","2",","," ","g","e","t"," ","1","!">>,
     <<"x"," ","w","w","w",".","y",".","z","?">>}
NormalizerTexts == {None} \cup {Text(t) : t \in ShortTexts \cup UrlTexts}

\* the raw texts given to the statistics, and the frames given to the
\* extraction pipeline: one row per text
StatTexts ==
    {None, Text(<<>>), Text(<<" ", " ">>), Text(<<"@", "#">>), Text(T_great), Text(T_url),
     Text(<<"h","t","t","p",":","/","/","x",".","c","o">>), Text(<<"G","R","E","A","T">>), Text(<<"H","e","l","l","o"," ","W","o","r","l","d",".">>), Text(<<"O","K"," "," ">>)}
ExtractFrames ==
    {<<[ValidReview EXCEPT !["text_"] = t]>> : t \in StatTexts}
    \cup {<<ValidReview, [ValidReview EXCEPT !["text_"] = Text(<<" ">>)]>>, <<NullDaysReview>>}

\* the rows given to extract_metadata_features: the values on both sides of
\* each threshold, and the forms of an identifier
MetadataRows ==
    {Review(Text(T_great), rating, ORD, PUR, v, d, c, Absent, Absent) :
        rating \in {Absent, Num(10), Num(45), Num(50)},
        v \in {Absent, Bool(TRUE), Bool(FALSE)},
        d \in {Absent, None, Num(-1), Num(0), Num(365), Num(366)},
        c \in {Absent, Num(50), Num(51)}}
    \cup {Review(Text(T_great), Num(40), o, p, Bool(TRUE), Num(10), Num(3), Absent, Absent) :
            o \in {Absent, None, Str(""), ORD},
            p \in {Absent, None, Str(""), PUR}}

\* the frames and columns given to the extractor
InferenceFrames ==
    {<<Scenario1>>,
     <<fill_defaults(Scenario1),
       Review(Text(T_url), Num(40), ORD, PUR, Bool(TRUE), Num(366), Num(3), USER, CAT)>>}
StatFrames == {extract_all_features(df).value : df \in {DS_A} \cup InferenceFrames}

Next ==
    \/ \E df \in TrainFrames \cup InferenceFrames, t \in BOOLEAN : PrepareFeatures(df, t)
    \/ \E df \in TrainFrames : FitTfidf(text_column(df))
    \/ \E f \in StatFrames \cup {<<>>} : FitScaler(f)
    \/ \E df \in InferenceFrames : TransformTfidf(text_column(df))
    \/ \E f \in StatFrames : TransformScaler(f)
    \/ \E t \in NormalizerTexts : PreprocessText(t)
    \/ \E t \in StatTexts : ExtractTextStatistics(t)
    \/ \E r \in MetadataRows : ExtractMetadataFeatures(r)
    \/ \E df \in ExtractFrames : ExtractAllFeatures(df)
    \/ Returned

Spec == Init /\ [][Next]_vars

---------------------------------------------------------------------------
(* The prediction functions and handlers of a process that holds a loaded  *)
(* model and extractor, one call at a time.                                *)

\* train_model.main on the frame df: the classifier and the extractor that
\* save_model persists.  forest: the forest model.fit returns
trained(df, max_tfidf_features, forest) ==
    LET r == prepare_features(df, ReviewFeatureExtractor(max_tfidf_features), TRUE)
    IN  [model |-> Forest(Len(r.out.value.features[1]), forest), extractor |-> r.extractor]

\* the forests model.fit can return: the columns tested are negative_days
\* (13), order_id_missing (10) and the first lexical column (19)
ForestTiming == <<Tree(13, 0, 300, 701)>>
ForestTimingInverse == <<Tree(13, 0, 700, 301)>>
ForestOrderAndTerm == <<Tree(10, 0, 0, 1000), Tree(19, 0, 200, 1000)>>
Forests == {ForestTiming, ForestTimingInverse, ForestOrderAndTerm}

\* what load_trained_model can return at startup
LoadedArtifacts ==
    {trained(DS_A, 30, f) : f \in Forests}
    \cup {trained(DS_B, 2, f) : f \in Forests}
    \cup {[model |-> None, extractor |-> None]}

InitPredict ==
    /\ \E a \in LoadedArtifacts : model = a.model /\ feature_extractor = a.extractor
    /\ last = NoCall
    /\ calls = NoCalls
    /\ files = EmptyDisk
    /\ bulk = Unimported
    /\ analytics_df = Unimported

\* args: the dict passed and the dict as the call leaves it
ValidateReviewData(review_data) ==
    /\ Ready
    /\ LET r == call_validate_review_data(review_data)
       IN  last' = Call("validate_review_data", <<review_data, r.review_data>>, r.out)
    /\ UNCHANGED <<analytics_df, files, bulk, feature_extractor, model, calls>>

AnalyzeRiskFactors(review_data, fake_probability) ==
    /\ Ready
    /\ last' = Call("analyze_risk_factors", <<review_data, fake_probability>>,
                    analyze_risk_factors(review_data, fake_probability))
    /\ UNCHANGED <<analytics_df, files, bulk, feature_extractor, model, calls>>

PredictSingleReview(review_data) ==
    /\ Ready
    /\ last' = Call("predict_single_review", <<review_data>>,
                    predict_single_review(review_data, model, feature_extractor))
    /\ UNCHANGED <<analytics_df, files, bulk, feature_extractor, model, calls>>

PredictReview(data) ==
    /\ Ready
    /\ last' = Call("predict_review", <<data>>,
                    predict_review(data, model, feature_extractor))
    /\ UNCHANGED <<analytics_df, files, bulk, feature_extractor, model, calls>>

PredictBatch(reviews) ==
    /\ Ready
    /\ last' = Call("predict_batch", <<reviews>>,
                    predict_batch(reviews, model, feature_extractor))
    /\ UNCHANGED <<analytics_df, files, bulk, feature_extractor, model, calls>>

GetFeatureImportance ==
    /\ Ready
    /\ last' = Call("get_feature_importance", <<model, feature_extractor>>,
                    get_feature_importance(model, feature_extractor))
    /\ UNCHANGED <<analytics_df, files, bulk, feature_extractor, model, calls>>

\* args: the frame passed and the frame as the call leaves it
PredictBulkReviews(reviews_df) ==
    /\ Ready
    /\ LET r == call_predict_bulk_reviews(reviews_df, model, feature_extractor)
       IN  last' = Call("predict_bulk_reviews", <<reviews_df, r.reviews_df>>, r.out)
    /\ UNCHANGED <<analytics_df, files, bulk, feature_extractor, model, calls>>

\* the reviews of a batch: two valid ones, one without text, one whose
\* prediction fails, and one that is no dict
MaxBatch == 3
BatchReviews == {Scenario1, ValidReview, NoTextReview, NullDaysReview, Num(5)}
Batches == UNION {[1..n -> BatchReviews] : n \in 0..MaxBatch}

\* the frames given to predict_bulk_reviews: rows with every column, one of
\* them with a null day count
BulkRows == {DS_A[1], DS_A[2], DS_A[8], NullDaysReview}
BulkFrames == UNION {[1..n -> BulkRows] : n \in 0..MaxBatch}

NextPredict ==
    \/ \E r \in RiskReviews \cup PredictReviews : ValidateReviewData(r)
    \/ \E r \in RiskReviews, p \in RiskProbabilities : AnalyzeRiskFactors(r, p)
    \/ \E r \in PredictReviews : PredictSingleReview(r)
    \/ \E r \in PredictReviews : PredictReview(r)
    \/ \E b \in Batches : PredictBatch(b)
    \/ \E df \in BulkFrames : PredictBulkReviews(df)
    \/ GetFeatureImportance
    \/ Returned

SpecPredict == InitPredict /\ [][NextPredict]_vars

---------------------------------------------------------------------------
(* Properties of the prediction functions and handlers (SpecPredict)       *)

Loaded == model # None /\ feature_extractor # None

\* the last call was op and returned a value
ReturnedFrom(op) == last.op = op /\ ~last.out.raised

\* the classifier's output for the review of the last predict_single_review
\* call: the hard label and the probability of class 1
ClassifierOutput ==
    Let(single_features(last.args[1], feature_extractor).value.features, LAMBDA X :
        [label |-> predict(model, X).value[1],
         fake_probability |-> predict_proba(model, X).value[1][2]])

\* the status that the policy gives to a classifier output
PolicyStatus(c) ==
    IF c.label = 1 THEN "FAKE"
    ELSE IF c.fake_probability > 300 THEN "SUSPICIOUS"
    ELSE "GENUINE"

\* C1: in every result of predict_single_review the status is FAKE when the
\* classifier's hard label is 1; otherwise SUSPICIOUS when the fake
\* probability is strictly above 0.3; otherwise GENUINE.
C1_DecisionPolicy ==
    ReturnedFrom("predict_single_review") =>
        last.out.value.status = PolicyStatus(ClassifierOutput)

\* a hard-label-genuine review with probability exactly 0.3 is GENUINE
C1_Witness ==
    /\ ReturnedFrom("predict_single_review")
    /\ ClassifierOutput = [label |-> 0, fake_probability |-> 300]
    /\ last.out.value.status = "GENUINE"

\* C2: in every result of predict_single_review the status is FAKE exactly
\* when the prediction is FAKE, and the statuses SUSPICIOUS and GENUINE occur
\* only with the prediction GENUINE.
C2_StatusFakeIffPredictionFake ==
    ReturnedFrom("predict_single_review") =>
        LET r == last.out.value
        IN  /\ r.status = "FAKE" <=> r.prediction = "FAKE"
            /\ r.status \in {"SUSPICIOUS", "GENUINE"} => r.prediction = "GENUINE"
            /\ r.status \in {"FAKE", "SUSPICIOUS", "GENUINE"}

\* a result with prediction FAKE and a result-determining probability short
\* of certainty
C2_Witness ==
    /\ ReturnedFrom("predict_single_review")
    /\ last.out.value.prediction = "FAKE"
    /\ last.out.value.status = "FAKE"
    /\ last.out.value.fake_probability < 1000

\* the record lacks the text field or the rating field
LacksRequired(d) == "text_" \notin DOMAIN d \/ "rating" \notin DOMAIN d

\* the defaults of the optional fields
DocumentedDefaults ==
    [order_id |-> None, purchase_id |-> None, verified_purchase |-> Bool(FALSE),
     user_id |-> Str("UNKNOWN"), days_after_purchase |-> Num(30),
     user_review_count |-> Num(1), category |-> Str("General")]

\* the record d with every absent optional field at its default
WithDefaults(d) ==
    [k \in DOMAIN d \cup DOMAIN DocumentedDefaults |->
        IF k \in DOMAIN d THEN d[k] ELSE DocumentedDefaults[k]]

\* C3: validation followed by prediction fails with a validation error
\* exactly when the record lacks the text or the rating; for a record that has
\* both, validation returns the record with each absent optional field at its
\* default, the /predict response is the one of the record with the defaults
\* written out, and a record whose present fields are all non-null is
\* answered with a prediction.
C3_ValidationErrorIffRequiredMissing ==
    /\ last.op = "validate_review_data" =>
           /\ last.out.raised <=> LacksRequired(last.args[1])
           /\ last.out.raised => last.out.value.type = "ValueError"
           /\ ~last.out.raised => last.out.value = WithDefaults(last.args[1])
    /\ (last.op = "predict_review" /\ Loaded) =>
           LET d == last.args[1]
           IN  /\ last.out.code = 400 <=> LacksRequired(d)
               /\ ~LacksRequired(d) =>
                      last.out = predict_review(WithDefaults(d), model, feature_extractor)
               /\ (~LacksRequired(d) /\ \A k \in DOMAIN d : d[k] # None) =>
                      last.out.code = 200

\* a record with the two required fields alone is answered with a prediction
C3_Witness ==
    /\ last.op = "predict_review"
    /\ Loaded
    /\ DOMAIN last.args[1] = {"text_", "rating"}
    /\ last.out.code = 200

IsErrorEntry(e) == DOMAIN e = {"error"}
IsPrediction(e) == {"prediction", "status", "fake_probability", "risk_factors"} \subseteq DOMAIN e

\* C4: for every non-empty list of reviews predict_batch returns one entry
\* per review, in input order: the error entry of a review that fails
\* validation or prediction, at that review's position, and the prediction
\* result of every other review.
C4_BatchOneEntryPerReview ==
    (last.op = "predict_batch" /\ Loaded /\ Len(last.args[1]) > 0) =>
        LET reviews == last.args[1]
            body == last.out.body
        IN  /\ last.out.code = 200
            /\ body.total = Len(reviews)
            /\ Len(body.results) = Len(reviews)
            /\ \A i \in DOMAIN reviews :
                   LET alone == validate_and_predict(reviews[i], model, feature_extractor)
                   IN  IF alone.raised
                       THEN IsErrorEntry(body.results[i])
                       ELSE body.results[i] = alone.value /\ IsPrediction(body.results[i])

\* three reviews of which the second lacks the text
C4_Witness ==
    /\ last.op = "predict_batch"
    /\ Loaded
    /\ Len(last.args[1]) = 3
    /\ "text_" \notin DOMAIN last.args[1][2]
    /\ last.out.code = 200
    /\ IsPrediction(last.out.body.results[1])
    /\ IsErrorEntry(last.out.body.results[2])
    /\ IsPrediction(last.out.body.results[3])

\* the reasons of the last call's list
Reasons == {last.out.value[i] : i \in DOMAIN last.out.value}

\* the arguments of the last analyze_risk_factors call, absent fields at the
\* defaults that the function gives them
RiskDays == get(last.args[1], "days_after_purchase", Num(0)).v
RiskCount == get(last.args[1], "user_review_count", Num(0)).v
RiskRating == get(last.args[1], "rating", Num(30)).v
RiskTextLen == len_str(get(last.args[1], "text_", Text(<<>>)))
IdMissing(d, k) == k \notin DOMAIN d \/ d[k] = None

CanonicalOrder ==
    <<{R_order.msg}, {R_purchase.msg}, {R_unverified.msg}, {R_before.msg, R_late(0).msg},
      {R_bot(0).msg}, {R_rating(0).msg}, {R_short.msg}, {R_highprob(0).msg}>>
Rank(r) == CHOOSE k \in DOMAIN CanonicalOrder : r.msg \in CanonicalOrder[k]

\* C6: the list analyze_risk_factors returns is a subsequence of the canonical
\* list order-id, purchase-id, unverified, timing, review-count, rating,
\* short-text, high-probability: every reason is one of these and the ranks
\* strictly increase along the list, so none is repeated.
C6_CanonicalOrder ==
    ReturnedFrom("analyze_risk_factors") =>
        LET out == last.out.value
        IN  /\ \A i \in DOMAIN out : \E k \in DOMAIN CanonicalOrder : out[i].msg \in CanonicalOrder[k]
            /\ \A i, j \in DOMAIN out : i < j => Rank(out[i]) < Rank(out[j])

\* a list with all eight kinds of reason
C6_Witness ==
    /\ ReturnedFrom("analyze_risk_factors")
    /\ Len(last.out.value) = 8

\* C7: the /predict response for the record of scenario 1 is a prediction
\* whose risk factors include the reasons for the missing order id, the
\* unverified purchase, the impossible timing, the bot-like review count and
\* the extreme rating, whatever the fake probability.
C7_Scenario1 ==
    (last.op = "predict_review" /\ Loaded /\ last.args[1] = Scenario1) =>
        /\ last.out.code = 200
        /\ LET f == last.out.body.risk_factors
           IN  {R_order, R_unverified, R_before, R_bot(200), R_rating(50)}
                   \subseteq {f[i] : i \in DOMAIN f}

\* scenario 1 predicted GENUINE, its fake probability short of 0.7
C7_Witness ==
    /\ last.op = "predict_review"
    /\ Loaded
    /\ last.args[1] = Scenario1
    /\ last.out.code = 200
    /\ last.out.body.prediction = "GENUINE"
    /\ last.out.body.fake_probability <= 700
    /\ Len(last.out.body.risk_factors) >= 5

\* C8: for the record of scenario 2 the risk-factor list is empty when the
\* fake probability is at most 0.7 and otherwise holds the high-probability
\* reason alone, both from analyze_risk_factors and in the /predict response.
C8_Scenario2 ==
    /\ (ReturnedFrom("analyze_risk_factors") /\ last.args[1] = Scenario2) =>
           last.out.value = IF last.args[2] <= 700 THEN <<>>
                            ELSE <<R_highprob(last.args[2])>>
    /\ (last.op = "predict_review" /\ Loaded /\ last.args[1] = Scenario2) =>
           /\ last.out.code = 200
           /\ last.out.body.risk_factors =
                  IF last.out.body.fake_probability <= 700 THEN <<>>
                  ELSE <<R_highprob(last.out.body.fake_probability)>>

\* scenario 2 at the probability 0.7: the list is empty
C8_Witness ==
    /\ ReturnedFrom("analyze_risk_factors")
    /\ last.args[1] = Scenario2
    /\ last.args[2] = 700
    /\ last.out.value = <<>>

---------------------------------------------------------------------------
(* Properties of the extractor's life (Spec)                               *)

\* the artifact has never been fit: never assigned, or assigned by a fit
\* that failed
Unfitted(artifact) == artifact = None \/ ~artifact.fitted

\* the step is a call of op: last' holds its arguments and its outcome
Calls(op) == last'.op = op

\* the call raised and left the extractor as it was
RaisesAndLeaves == last'.out.raised /\ feature_extractor' = feature_extractor

\* C9: on an extractor whose vectorizer (scaler) has never been fit,
\* transform_tfidf (transform_scaler) raises, and prepare_features with
\* is_training = False raises when either is unfitted; no value is returned
\* and the extractor is left as it was, still unfitted.
C9_TransformBeforeFitRaises ==
    [][/\ (Calls("transform_tfidf") /\ Unfitted(feature_extractor.tfidf_vectorizer))
              => RaisesAndLeaves
       /\ (Calls("transform_scaler") /\ Unfitted(feature_extractor.scaler))
              => RaisesAndLeaves
       /\ (/\ Calls("prepare_features")
           /\ last'.args[2] = FALSE
           /\ \/ Unfitted(feature_extractor.tfidf_vectorizer)
              \/ Unfitted(feature_extractor.scaler))
              => RaisesAndLeaves]_vars

\* prepare_features for inference has raised on an extractor whose vectorizer
\* is fitted and whose scaler was never fit
C9_Witness ==
    /\ last.op = "prepare_features"
    /\ last.args[2] = FALSE
    /\ last.out.raised
    /\ ~Unfitted(feature_extractor.tfidf_vectorizer)
    /\ feature_extractor.scaler = None

---------------------------------------------------------------------------
(* The serving process under concurrent prediction calls (SpecServe): the  *)
(* request threads share the loaded model and extractor.  A call of        *)
(* predict_single_review or predict_bulk_reviews takes one step for each   *)
(* access to a shared object: the vectorizer, the scaler, the classifier.  *)

NumCalls == 2
CallIds == 1..NumCalls

Idle == [pc |-> "idle"]

\* the frame a call works on
frame_of(kind, input) == IF kind = "single" THEN <<input>> ELSE input

\* a call that has ended with the outcome result
Done(call, result) == [pc |-> "done", kind |-> call.kind, input |-> call.input, result |-> result]

\* the two rows of the bulk frame
BulkFrame ==
    <<fill_defaults(Scenario1),
      Review(Text(T_url), Num(40), ORD, PUR, Bool(TRUE), Num(366), Num(3), USER, CAT)>>

\* the calls made: kind and input
ServeInputs ==
    {[kind |-> "single", input |-> fill_defaults(Scenario1)],
     [kind |-> "single", input |-> NullDaysReview],
     [kind |-> "bulk", input |-> BulkFrame]}

ServeArtifacts == {trained(DS_A, 30, ForestTiming), trained(DS_B, 2, ForestOrderAndTerm)}

InitServe ==
    /\ \E a \in ServeArtifacts : model = a.model /\ feature_extractor = a.extractor
    /\ last = NoCall
    /\ calls = [c \in CallIds |-> Idle]
    /\ files = EmptyDisk
    /\ bulk = Unimported
    /\ analytics_df = Unimported

\* the call begins: prepare_features extracts the statistical features
ServeStart(c, in) ==
    /\ calls[c].pc = "idle"
    /\ LET df == frame_of(in.kind, in.input)
           statistical_features == extract_all_features(df)
           call == [kind |-> in.kind, input |-> in.input]
       IN  calls' = [calls EXCEPT ![c] =
               IF statistical_features.raised THEN Done(call, statistical_features)
               ELSE [pc |-> "tfidf", kind |-> in.kind, input |-> in.input,
                     statistical_features |-> statistical_features.value]]
    /\ UNCHANGED <<analytics_df, files, bulk, feature_extractor, model, last>>

\* extractor.transform_tfidf(df['text_'])
ServeTfidf(c) ==
    /\ calls[c].pc = "tfidf"
    /\ LET call == calls[c]
           t == inference_tfidf(feature_extractor,
                                text_column(frame_of(call.kind, call.input)))
       IN  /\ feature_extractor' = t.extractor
           /\ calls' = [calls EXCEPT ![c] =
                  IF t.out.raised THEN Done(call, t.out)
                  ELSE [pc |-> "scaler", kind |-> call.kind, input |-> call.input,
                        statistical_features |-> call.statistical_features,
                        tfidf_features |-> t.out.value]]
    /\ UNCHANGED <<analytics_df, files, bulk, model, last>>

\* extractor.transform_scaler(statistical_features), then the hstack
ServeScaler(c) ==
    /\ calls[c].pc = "scaler"
    /\ LET call == calls[c]
           sc == inference_scaler(feature_extractor, call.statistical_features)
       IN  /\ feature_extractor' = sc.extractor
           /\ calls' = [calls EXCEPT ![c] =
                  IF sc.out.raised THEN Done(call, sc.out)
                  ELSE [pc |-> "predict", kind |-> call.kind, input |-> call.input,
                        features |-> hstack(sc.out.value, call.tfidf_features)]]
    /\ UNCHANGED <<analytics_df, files, bulk, model, last>>

\* model.predict and model.predict_proba, and the result built from them
ServePredict(c) ==
    /\ calls[c].pc = "predict"
    /\ LET call == calls[c]
       IN  calls' = [calls EXCEPT ![c] =
               Done(call, IF call.kind = "single"
                          THEN single_result(call.input, model, call.features)
                          ELSE bulk_result(call.input, model, call.features))]
    /\ UNCHANGED <<analytics_df, files, bulk, feature_extractor, model, last>>

\* the caller has the result; the thread takes the next request
ServeReturn(c) ==
    /\ calls[c].pc = "done"
    /\ calls' = [calls EXCEPT ![c] = Idle]
    /\ UNCHANGED <<analytics_df, files, bulk, feature_extractor, model, last>>

NextServe ==
    \E c \in CallIds :
        \/ \E in \in ServeInputs : ServeStart(c, in)
        \/ ServeTfidf(c)
        \/ ServeScaler(c)
        \/ ServePredict(c)
        \/ ServeReturn(c)

SpecServe == InitServe /\ [][NextServe]_vars

\* the result of the call when it runs alone on the model m and extractor
alone(call, m, extractor) ==
    IF call.kind = "single" THEN predict_single_review(call.input, m, extractor)
    ELSE predict_bulk_reviews(call.input, m, extractor)

\* C10: under every interleaving of concurrent prediction calls that share
\* the loaded model and extractor, no step of a call changes the classifier,
\* the vectorizer or the scaler, and every call that has ended holds the
\* result that the same call gives when it runs alone.
C10_ConcurrentCallsShareReadOnly ==
    /\ [][model' = model /\ feature_extractor' = feature_extractor]_vars
    /\ [](\A c \in CallIds :
              calls[c].pc = "done" =>
                  calls[c].result = alone(calls[c], model, feature_extractor))

\* a bulk call has ended with a result frame while another call is midway,
\* between its reads of the vectorizer and of the classifier
C10_Witness ==
    \E c, d \in CallIds :
        /\ c # d
        /\ calls[c].pc = "done"
        /\ calls[c].kind = "bulk"
        /\ ~calls[c].result.raised
        /\ calls[d].pc \in {"scaler", "predict"}

---------------------------------------------------------------------------
(* The life of the fitted artefacts (Spec) *)

\* the artefact holds fitted parameters
Fitted(artifact) == artifact # None /\ artifact.fitted

\* C11: once fit_tfidf or fit_scaler has succeeded on an extractor, no later
\* operation on it changes the fitted vocabulary and weights or the fitted
\* scaling parameters.
C11_FitOnceThenImmutable ==
    [][/\ Fitted(feature_extractor.tfidf_vectorizer) =>
              feature_extractor'.tfidf_vectorizer = feature_extractor.tfidf_vectorizer
       /\ Fitted(feature_extractor.scaler) =>
              feature_extractor'.scaler = feature_extractor.scaler]_vars

---------------------------------------------------------------------------
(* FakeReviewDetector.evaluate and save_model (train_model.py), and the   *)
(* script adjust_metrics.py.  Scores are held in ten-thousandths.         *)

\* a / b in ten-thousandths; 0 for an empty denominator (zero_division)
score(a, b) == IF b = 0 THEN 0 ELSE (a * 10000) \div b

\* confusion_matrix(y_test, y_pred)[t][p], for the classes 0 and 1
confusion_count(y_test, y_pred, t, p) ==
    Cardinality({i \in DOMAIN y_test : y_test[i] = t /\ y_pred[i] = p})

\* roc_auc_score(y_test, y_pred_proba): the share of the (fake, genuine)
\* pairs that the probability orders rightly, a tie counting for a half
roc_auc_score(y_test, y_pred_proba) ==
    LET pairs == {<<i, j>> \in (DOMAIN y_test) \X (DOMAIN y_test) : y_test[i] = 1 /\ y_test[j] = 0}
        above == {q \in pairs : y_pred_proba[q[1]] > y_pred_proba[q[2]]}
        level == {q \in pairs : y_pred_proba[q[1]] = y_pred_proba[q[2]]}
    IN  score(2 * Cardinality(above) + Cardinality(level), 2 * Cardinality(pairs))

\* one class of classification_report: hit, the rows of the class predicted
\* as it; predicted, the rows predicted as the class; support, its rows
report_row(hit, predicted, support) ==
    [precision |-> score(hit, predicted),
     recall |-> score(hit, support),
     f1_score |-> score(2 * hit, predicted + support),
     support |-> support]

\* classification_report(y_test, y_pred, output_dict=True)
classification_report(tn, fp, fn, tp) ==
    LET genuine == report_row(tn, tn + fn, tn + fp)
        fake == report_row(tp, tp + fp, fn + tp)
        total == tn + fp + fn + tp
        macro(k) == (genuine[k] + fake[k]) \div 2
        weighted(k) == (genuine[k] * genuine.support + fake[k] * fake.support) \div total
    IN  [genuine |-> genuine,
         fake |-> fake,
         accuracy |-> score(tn + tp, total),
         macro_avg |-> [precision |-> macro("precision"), recall |-> macro("recall"),
                        f1_score |-> macro("f1_score"), support |-> total],
         weighted_avg |-> [precision |-> weighted("precision"), recall |-> weighted("recall"),
                           f1_score |-> weighted("f1_score"), support |-> total]]

\* evaluate: self.metrics, or the exception.  y_test holds both classes in
\* every split that train_test_split stratifies
evaluate(m, X_test, y_test) ==
    Let(predict(m, X_test), LAMBDA predicted :
        IF predicted.raised THEN predicted
        ELSE IF Range(y_test) # {0, 1}
        THEN Raise("ValueError", "Only one class present in y_true. ROC AUC score is not defined in that case.")
        ELSE Let(predicted.value, LAMBDA y_pred :
             Let(list([i \in DOMAIN X_test |-> forest_proba(m, X_test[i])[2]]), LAMBDA y_pred_proba :
             Let([t \in {0, 1} |-> [p \in {0, 1} |-> confusion_count(y_test, y_pred, t, p)]],
                 LAMBDA cm :
                 Return([accuracy |-> score(cm[0][0] + cm[1][1], Len(y_test)),
                         precision |-> score(cm[1][1], cm[0][1] + cm[1][1]),
                         recall |-> score(cm[1][1], cm[1][0] + cm[1][1]),
                         f1_score |-> score(2 * cm[1][1], 2 * cm[1][1] + cm[0][1] + cm[1][0]),
                         roc_auc |-> roc_auc_score(y_test, y_pred_proba),
                         confusion_matrix |-> <<<<cm[0][0], cm[0][1]>>, <<cm[1][0], cm[1][1]>>>>,
                         true_negatives |-> cm[0][0],
                         false_positives |-> cm[0][1],
                         false_negatives |-> cm[1][0],
                         true_positives |-> cm[1][1],
                         classification_report |->
                             classification_report(cm[0][0], cm[0][1], cm[1][0], cm[1][1]),
                         feature_importance |-> feature_importances_(m)])))))

\* restrict a dict to some of its keys
restrict(d, keys) == [k \in keys |-> d[k]]

\* save_model's model_metrics.json: the metrics whose value is no dict, with
\* the time of the save and the model type
metrics_to_save(metrics, timestamp) ==
    restrict(metrics, DOMAIN metrics \ {"classification_report"})
        @@ [timestamp |-> timestamp, model_type |-> "random_forest"]

\* the directory as save_model leaves it: the two pickles and the two
\* metrics documents
save_model(detector, timestamp) ==
    [model |-> Pickle(detector.model),
     extractor |-> Pickle(detector.extractor),
     model_metrics |-> metrics_to_save(detector.metrics, timestamp),
     full_metrics |-> detector.metrics]

\* the figures that adjust_metrics.py writes
AdjustedAccuracy == 9350
AdjustedPrecision == 9420
AdjustedRecall == 9180
AdjustedF1 == 9299
AdjustedRocAuc == 9812
total_test == 12799
fake_in_test == 5133
genuine_in_test == 7666
\* int(fake_in_test * 0.918), int(genuine_in_test * 0.952)
adjusted_true_positives == (fake_in_test * 918) \div 1000
adjusted_true_negatives == (genuine_in_test * 952) \div 1000
adjusted_false_negatives == fake_in_test - adjusted_true_positives
adjusted_false_positives == genuine_in_test - adjusted_true_negatives

adjusted_scores ==
    [accuracy |-> AdjustedAccuracy,
     precision |-> AdjustedPrecision,
     recall |-> AdjustedRecall,
     f1_score |-> AdjustedF1,
     roc_auc |-> AdjustedRocAuc,
     true_negatives |-> adjusted_true_negatives,
     false_positives |-> adjusted_false_positives,
     false_negatives |-> adjusted_false_negatives,
     true_positives |-> adjusted_true_positives]

adjusted_report ==
    [genuine |-> [precision |-> 9520, recall |-> 9520, f1_score |-> 9520,
                  support |-> genuine_in_test],
     fake |-> [precision |-> AdjustedPrecision, recall |-> AdjustedRecall,
               f1_score |-> AdjustedF1, support |-> fake_in_test],
     accuracy |-> AdjustedAccuracy,
     macro_avg |-> [precision |-> 9470, recall |-> 9350, f1_score |-> 9410,
                    support |-> total_test],
     weighted_avg |-> [precision |-> 9475, recall |-> 9350, f1_score |-> 9411,
                       support |-> total_test]]

\* adjust_metrics.py: the directory it leaves, or the exception of the open
\* of full_metrics.json.  The other keys of the document are kept
adjust_metrics(model_dir) ==
    IF model_dir.full_metrics = Missing
    THEN Raise("FileNotFoundError", "No such file or directory: 'saved_models/full_metrics.json'")
    ELSE Return([model_dir EXCEPT
                    !.full_metrics =
                        adjusted_scores
                        @@ [confusion_matrix |->
                                <<<<adjusted_true_negatives, adjusted_false_positives>>,
                                  <<adjusted_false_negatives, adjusted_true_positives>>>>,
                            classification_report |-> adjusted_report]
                        @@ model_dir.full_metrics,
                    !.model_metrics = adjusted_scores @@ [model_type |-> "random_forest"]])

---------------------------------------------------------------------------
(* The serving process from its start (SpecStart): app.py imports the      *)
(* route modules, each of which loads the artefacts from the saved_models  *)
(* directory once; then requests are served, one at a time.  A training    *)
(* run may write the directory at any time.                                *)

\* whether the route modules have been imported: routes/bulk.py is the last
Started == bulk # Unimported

\* the test split of a training run: the frame and its labels (1: fake)
TestFrame == <<DS_A[1], DS_A[2], DS_A[5], DS_A[6]>>
TestLabels == <<1, 0, 0, 1>>

\* the detector at the end of main(): the fitted pair and the metrics of the
\* test split
detector(fitted) ==
    fitted @@
    [metrics |-> evaluate(fitted.model,
                          prepare_features(TestFrame, fitted.extractor, FALSE).out.value.features,
                          TestLabels).value]

StartArtifacts ==
    {detector(trained(DS_A, 30, ForestTiming)), detector(trained(DS_B, 2, ForestOrderAndTerm))}

\* datetime.now() at the saves, as save_model formats it
Timestamps == {<<"2","0","2","4","0","1","0","1","_","0","0","0","0","0","0">>,
               <<"2","0","2","4","0","1","0","2","_","0","0","0","0","0","0">>}

\* the contents the directory can have at the start: nothing, parts of a
\* saved directory, or a file that does not unpickle
StartDirectories ==
    UNION {{[save_model(a, t) EXCEPT !.model = m, !.extractor = e] :
                m \in {Missing, Corrupt, Pickle(a.model)},
                e \in {Missing, Corrupt, Pickle(a.extractor)}}
           \cup {EmptyDisk.saved_models} : a \in StartArtifacts, t \in Timestamps}

InitStart ==
    /\ model = Unimported
    /\ feature_extractor = Unimported
    /\ bulk = Unimported
    /\ last = NoCall
    /\ calls = NoCalls
    /\ \E d \in StartDirectories : files = [saved_models |-> d, tmp |-> {}]
    /\ analytics_df = Unimported

\* from routes import predict, analytics, bulk (app.py): the import of
\* routes/predict.py, with the load at its top
StartPredict ==
    /\ model = Unimported
    /\ model' = module_load(files.saved_models).model
    /\ feature_extractor' = module_load(files.saved_models).extractor
    /\ last' = Call("load_trained_model", <<files.saved_models>>,
                    load_trained_model(files.saved_models))
    /\ UNCHANGED <<analytics_df, calls, files, bulk>>

\* then the import of routes/bulk.py, with the load at its top
StartBulk ==
    /\ model # Unimported
    /\ bulk = Unimported
    /\ bulk' = module_load(files.saved_models)
    /\ last' = Call("load_trained_model", <<files.saved_models>>,
                    load_trained_model(files.saved_models))
    /\ UNCHANGED <<analytics_df, calls, files, model, feature_extractor>>

\* train_model.py: main() ends with save_model
SaveModel(a, timestamp) ==
    /\ files' = [files EXCEPT !.saved_models = save_model(a, timestamp)]
    /\ UNCHANGED <<analytics_df, feature_extractor, model, last, calls, bulk>>

\* python adjust_metrics.py, run where saved_models is; without the
\* full_metrics.json file the script ends at its first open
AdjustMetrics ==
    /\ ~adjust_metrics(files.saved_models).raised
    /\ files' = [files EXCEPT !.saved_models = adjust_metrics(files.saved_models).value]
    /\ UNCHANGED <<analytics_df, feature_extractor, model, last, calls, bulk>>

\* the temporary files NamedTemporaryFile can still create
MaxTmpFiles == 2
FreeTmpNames == (1..MaxTmpFiles) \ {f.name : f \in files.tmp}

UploadBulkReviews(request, file_id) ==
    /\ Started
    /\ Ready
    /\ LET r == upload_bulk_reviews(request, bulk.model, bulk.extractor, file_id)
       IN  /\ last' = Call("upload_bulk_reviews", <<request>>, r.response)
           /\ files' = IF r.saved = Absent THEN files
                       ELSE [files EXCEPT !.tmp = @ \cup {[name |-> file_id, frame |-> r.saved]}]
    /\ UNCHANGED <<analytics_df, feature_extractor, model, calls, bulk>>

\* the uploaded files
UploadFrame(columns) ==
    [columns |-> columns,
     rows |-> <<[k \in columns |-> fill_defaults(Scenario1)[k]],
                [k \in columns |-> ValidReview[k]]>>]
FileName(stem, ext) == stem \o <<".">> \o ext
N_reviews == <<"r","e","v","i","e","w","s">>
Uploads ==
    {Absent,
     [filename |-> <<>>, content |-> [format |-> "csv", columns |-> {}, rows |-> <<>>]],
     [filename |-> N_reviews, content |-> [format |-> "csv"] @@ UploadFrame(DOMAIN ValidReview)],
     [filename |-> FileName(N_reviews, <<"t","x","t">>),
      content |-> [format |-> "csv"] @@ UploadFrame(DOMAIN ValidReview)],
     [filename |-> FileName(N_reviews, <<"C","S","V">>),
      content |-> [format |-> "csv"] @@ UploadFrame(DOMAIN ValidReview)],
     [filename |-> FileName(N_reviews, <<"x","l","s","x">>),
      content |-> [format |-> "xlsx"] @@ UploadFrame(DOMAIN ValidReview)],
     [filename |-> FileName(N_reviews, <<"c","s","v">>),
      content |-> [format |-> "other", columns |-> {}, rows |-> <<>>]],
     [filename |-> FileName(N_reviews, <<"c","s","v">>),
      content |-> [format |-> "csv", columns |-> {"text_", "rating"}, rows |-> <<>>]]}
    \cup {[filename |-> FileName(N_reviews, <<"c","s","v">>),
           content |-> [format |-> "csv"] @@ UploadFrame(columns)] :
            columns \in {DOMAIN ValidReview, {"text_", "rating"}, {"text_"},
                         {"rating", "order_id"}}}

StartReviews == {Scenario1, Scenario2, ValidReview, NoTextReview, NullDaysReview}
StartBatches == {<<>>, <<Scenario1>>, <<ValidReview, NoTextReview>>}

NextStart ==
    \/ StartPredict
    \/ StartBulk
    \/ \E a \in StartArtifacts, t \in Timestamps : SaveModel(a, t)
    \/ AdjustMetrics
    \/ Started /\ \E r \in StartReviews : PredictReview(r)
    \/ Started /\ \E b \in StartBatches : PredictBatch(b)
    \/ \E u \in Uploads, file_id \in FreeTmpNames : UploadBulkReviews(u, file_id)
    \/ Started /\ Returned

SpecStart == InitStart /\ [][NextStart]_vars

\* the directory lacks a loadable model or a loadable extractor
LoadFails(model_dir) ==
    model_dir.model \in {Missing, Corrupt} \/ model_dir.extractor \in {Missing, Corrupt}

\* a load of the start failed: a module holds no artefacts
StartFailed == Started /\ (model = None \/ feature_extractor = None \/ bulk.model = None
                           \/ bulk.extractor = None)

\* the last call is a request to one of the prediction endpoints
Requested == last.op \in {"predict_review", "predict_batch", "upload_bulk_reviews"}

\* the response carries an error and no prediction
Refused(response) ==
    /\ response.code \in {400, 500}
    /\ DOMAIN response.body \subseteq {"error", "detail"}

\* C12: when the saved model or extractor is missing or corrupt at a load
\* of the start, load_trained_model raises and the importing module holds no
\* part of the pair; and after a start with a failed load every /predict,
\* /predict/batch and /bulk/upload request is answered with an error and no
\* prediction, whatever is saved later.
C12_LoadFailureRefusesPredictions ==
    /\ (last.op = "load_trained_model" /\ LoadFails(last.args[1])) =>
           /\ last.out.raised
           /\ ~Started => (model = None /\ feature_extractor = None)
           /\ Started => bulk = [model |-> None, extractor |-> None]
    /\ (StartFailed /\ Requested) => Refused(last.out)

\* the pair that the handlers of routes/predict.py use
PredictPair == [model |-> model, extractor |-> feature_extractor]

\* after the start no step rebinds the artefacts of a module
ArtifactsNeverReplaced ==
    [][Started =>
           (model' = model /\ feature_extractor' = feature_extractor /\ bulk' = bulk)]_vars

\* C24: once the process has started, /predict, /predict/batch and
\* /bulk/upload use one and the same model / feature extractor pair, the
\* one that the load at the start produced, so that the endpoints agree on
\* whether a model is available.
C24_OnePairForAllEndpoints == Started => bulk = PredictPair

---------------------------------------------------------------------------
(* Data-quality anomalies (SpecPredict) *)

\* a record whose fields have the types the pipeline computes with
WellFormed(d) ==
    /\ IsDict(d)
    /\ {"text_", "rating"} \subseteq DOMAIN d
    /\ d["text_"].t = "text"
    /\ d["rating"].t = "num"
    /\ get(d, "verified_purchase", Bool(FALSE)).t = "bool"
    /\ get(d, "days_after_purchase", Num(0)).t = "num"
    /\ get(d, "user_review_count", Num(0)).t = "num"

\* the reasons of the anomalies of the record d: a null id, a review posted
\* before the purchase, a rating of 1.0 or 5.0
AnomalyReasons(d) ==
    (IF get(d, "order_id", None) = None THEN {R_order} ELSE {})
    \cup (IF get(d, "purchase_id", None) = None THEN {R_purchase} ELSE {})
    \cup (IF get(d, "days_after_purchase", Num(0)).v < 0 THEN {R_before} ELSE {})
    \cup (IF d["rating"].v \in {ExtremeRatingLow, ExtremeRatingHigh}
          THEN {R_rating(d["rating"].v)} ELSE {})

\* the prediction result e reports every anomaly of d
ReportsAnomalies(e, d) ==
    /\ IsPrediction(e)
    /\ AnomalyReasons(d) \subseteq {e.risk_factors[i] : i \in DOMAIN e.risk_factors}

\* C13: a well-formed record with a negative days_after_purchase, a null
\* order_id or purchase_id, or a rating of 1.0 or 5.0 is accepted by
\* validate_review_data and by predict_single_review, /predict and
\* /predict/batch, which return a prediction whose risk factors hold the
\* reason of each anomaly; none is rejected or answered with an error entry.
C13_AnomaliesAreNotErrors ==
    /\ (last.op = "validate_review_data" /\ WellFormed(last.args[1])) => ~last.out.raised
    /\ (last.op = "predict_single_review" /\ Loaded /\ WellFormed(last.args[1])) =>
           ~last.out.raised /\ ReportsAnomalies(last.out.value, last.args[1])
    /\ (last.op = "predict_review" /\ Loaded /\ WellFormed(last.args[1])) =>
           last.out.code = 200 /\ ReportsAnomalies(last.out.body, last.args[1])
    /\ (last.op = "predict_batch" /\ Loaded /\ last.out.code = 200) =>
           \A i \in DOMAIN last.args[1] :
               WellFormed(last.args[1][i]) =>
                   ReportsAnomalies(last.out.body.results[i], last.args[1][i])

\* a record with a null order id, a null purchase id, a negative timing and
\* a rating of 1.0 has been predicted, and all four reasons are reported
C13_Witness ==
    /\ last.op = "predict_review"
    /\ Loaded
    /\ WellFormed(last.args[1])
    /\ AnomalyReasons(last.args[1]) = {R_order, R_purchase, R_before, R_rating(10)}
    /\ last.out.code = 200
    /\ ReportsAnomalies(last.out.body, last.args[1])

---------------------------------------------------------------------------
(* The feature matrix (Spec) *)

\* the row of the feature matrix for the row of the frame, column by
\* column: each statistical column scaled with its own mean and deviation,
\* then one column per vocabulary term
ExpectedRow(extractor, row) ==
    Let(extract_all_features(<<row>>).value[1], LAMBDA stats :
    Let(tfidf_row(extractor.tfidf_vectorizer, preprocess_text(row["text_"])), LAMBDA lexical :
        [j \in 1..(Len(statistical_feature_names) + Len(extractor.tfidf_vectorizer.vocabulary_)) |->
            IF j <= Len(statistical_feature_names)
            THEN scale_value(extractor.scaler, j, stats[j].value)
            ELSE lexical[j - Len(statistical_feature_names)]]))

\* C14: every feature matrix prepare_features returns, from the training
\* call that fits the extractor and from every later inference call, has
\* for each row of the frame one row of 18 scaled statistical columns, in the
\* fixed order of their names, followed by one lexical column per vocabulary
\* term, in vocabulary order.
C14_FeatureMatrixColumns ==
    ReturnedFrom("prepare_features") =>
        LET df == last.args[1]
            X == last.out.value.features
        IN  /\ last.out.value.names = statistical_feature_names
            /\ Len(X) = Len(df)
            /\ \A i \in DOMAIN df : X[i] = ExpectedRow(feature_extractor, df[i])

\* an inference call on a fitted extractor for a text without a vocabulary
\* term: the row has the length of the training rows and its lexical
\* columns are 0
C14_Witness ==
    /\ ReturnedFrom("prepare_features")
    /\ last.args[2] = FALSE
    /\ \E i \in DOMAIN last.args[1] :
           LET x == last.out.value.features[i]
               n == Len(feature_extractor.tfidf_vectorizer.vocabulary_)
           IN  /\ n >= 2
               /\ Len(x) = Len(statistical_feature_names) + n
               /\ \A j \in (Len(statistical_feature_names) + 1)..Len(x) : x[j] = 0

---------------------------------------------------------------------------
(* Properties of the text normalizer (Spec) *)

\* the characters of a normalized text
NormalizedChars == LowerSet \cup DigitSet \cup SpaceSet \cup KeptPunct

\* C15: for every input preprocess_text returns a text whose characters are
\* lowercase letters, digits, whitespace or one of ! ? . , and which neither
\* begins nor ends with whitespace; a missing input gives the empty text;
\* no input makes it raise.
C15_NormalizedText ==
    last.op = "preprocess_text" =>
        /\ ~last.out.raised
        /\ LET out == last.out.value
           IN  /\ \A i \in DOMAIN out : out[i] \in NormalizedChars
               /\ out # <<>> => ~isspace(out[1]) /\ ~isspace(out[Len(out)])
               /\ last.args[1] = None => out = <<>>

\* a text with capitals, a character that is not kept and whitespace at
\* both ends has been normalized to a text that is not empty
C15_Witness ==
    /\ last.op = "preprocess_text"
    /\ last.args[1] # None
    /\ LET in == last.args[1].v
       IN  /\ in # <<>>
           /\ isspace(in[1]) /\ isspace(in[Len(in)])
           /\ \E i \in DOMAIN in : isupper(in[i])
    /\ last.out.value = <<"h","e","l","l","o",","," ","w","o","r","l","d","!">>

\* whether pat occurs in s
contains(s, pat) == \E i \in DOMAIN s : has_at(s, i, pat)

\* a token that counts as a URL: it contains 'http' or starts with 'www'
IsUrlToken(token) == contains(token, HTTP) \/ has_at(token, 1, WWW)

\* the tokens of the raw text, lowercased and rid of the characters that
\* are not kept, without the ones that are empty or count as URLs, in order
TokensWithoutUrls(text) ==
    LET tokens == split(lower(text))
        cleaned == [i \in DOMAIN tokens |-> filter_chars(tokens[i], KeptChars)]
    IN  select(cleaned, 1, Len(cleaned),
               {i \in DOMAIN cleaned : cleaned[i] # <<>> /\ ~IsUrlToken(cleaned[i])})

\* C16: for every input the text preprocess_text returns has no token that
\* contains 'http' or starts with 'www', and its tokens are the tokens of the
\* input without those that, once lowercased and rid of the characters that
\* are not kept, contain 'http' or start with 'www': each such token is
\* removed as a whole and nothing else is.
C16_UrlsRemoved ==
    (last.op = "preprocess_text" /\ last.args[1] # None) =>
        LET out == split(last.out.value)
        IN  /\ \A i \in DOMAIN out : ~IsUrlToken(out[i])
            /\ out = TokensWithoutUrls(last.args[1].v)

---------------------------------------------------------------------------
(* Properties of the statistical features (Spec) *)

\* the value of the feature name in the row of features
Feature(features, name) ==
    features[CHOOSE i \in DOMAIN features : features[i].name = name].value

\* the text statistics of the row: the first eight features
TextStatistics(features) == SubSeq(features, 1, Len(text_stat_names))

AllZero(features) == \A i \in DOMAIN features : features[i].value = 0

\* word_count = 0 gives avg_word_length = 0 and unique_word_ratio = 0
GuardedRatios(features) ==
    Feature(features, "word_count") = 0 =>
        Feature(features, "avg_word_length") = 0 /\ Feature(features, "unique_word_ratio") = 0

\* C17: in every frame extract_all_features returns, a row whose text is
\* missing, empty or normalizes to the empty text has all eight text
\* statistics equal to 0; and in every result of the pipeline and of
\* extract_text_statistics, avg_word_length and unique_word_ratio are 0
\* whenever word_count is 0; neither raises a division error.
C17_EmptyTextAllZero ==
    /\ last.op = "extract_all_features" =>
           /\ last.out.raised => last.out.value.type # "ZeroDivisionError"
           /\ ~last.out.raised =>
                  \A i \in DOMAIN last.args[1] :
                      LET text == last.args[1][i]["text_"]
                          stats == TextStatistics(last.out.value[i])
                      IN  /\ Names(stats) = text_stat_names
                          /\ GuardedRatios(stats)
                          /\ (isna(text) \/ strip(filter_chars(remove_urls(lower(text.v)),
                                                              KeptChars)) = <<>>)
                                 => AllZero(stats)
    /\ last.op = "extract_text_statistics" =>
           /\ ~last.out.raised
           /\ GuardedRatios(last.out.value)
           /\ (isna(last.args[1]) \/ last.args[1].v = <<>>) => AllZero(last.out.value)

\* the pipeline has given all-zero statistics to a row whose raw text is
\* not empty: it holds a URL and nothing else
C17_Witness ==
    /\ ReturnedFrom("extract_all_features")
    /\ last.args[1][1]["text_"] = Text(<<"h","t","t","p",":","/","/","x",".","c","o">>)
    /\ AllZero(TextStatistics(last.out.value[1]))

---------------------------------------------------------------------------
(* Properties of the metadata features (Spec) *)

\* C18: in every result of extract_metadata_features, negative_days is 1
\* exactly when the day count is below 0, very_late_review exactly when it is
\* above 365, high_review_count exactly when the review count is above 50,
\* extreme_rating exactly when the rating is 1.0 or 5.0, verified_purchase is
\* 0 or 1 as the flag says, and days_after_purchase, user_review_count and
\* rating are the values given (0, 0 and 3.0 when the row has none); no
\* result has both negative_days and very_late_review.
C18_MetadataIndicators ==
    (last.op = "extract_metadata_features" /\ ~last.out.raised) =>
        LET row == last.args[1]
            f == last.out.value
            days == IF "days_after_purchase" \in DOMAIN row
                    THEN row["days_after_purchase"].v ELSE 0
            count == IF "user_review_count" \in DOMAIN row
                     THEN row["user_review_count"].v ELSE 0
            rating == IF "rating" \in DOMAIN row THEN row["rating"].v ELSE 30
            flag == "verified_purchase" \in DOMAIN row /\ row["verified_purchase"].v
        IN  /\ Feature(f, "negative_days") = (IF days < 0 THEN 1 ELSE 0)
            /\ Feature(f, "very_late_review") = (IF days > 365 THEN 1 ELSE 0)
            /\ Feature(f, "high_review_count") = (IF count > 50 THEN 1 ELSE 0)
            /\ Feature(f, "extreme_rating") = (IF rating = 10 \/ rating = 50 THEN 1 ELSE 0)
            /\ Feature(f, "verified_purchase") = (IF flag THEN 1 ELSE 0)
            /\ Feature(f, "days_after_purchase") = days
            /\ Feature(f, "user_review_count") = count
            /\ Feature(f, "rating") = rating
            /\ ~(Feature(f, "negative_days") = 1 /\ Feature(f, "very_late_review") = 1)

\* a row at both thresholds: 365 days is not very late, 50 reviews is not a
\* high count, and the rating 5.0 is extreme
C18_Witness ==
    /\ ReturnedFrom("extract_metadata_features")
    /\ Feature(last.out.value, "days_after_purchase") = 365
    /\ Feature(last.out.value, "very_late_review") = 0
    /\ Feature(last.out.value, "user_review_count") = 50
    /\ Feature(last.out.value, "high_review_count") = 0
    /\ Feature(last.out.value, "extreme_rating") = 1

\* an identifier is missing: the row has no such key, or it is null, or it
\* is the empty string
IdentifierMissing(row, key) ==
    \/ key \notin DOMAIN row
    \/ row[key] = None
    \/ row[key] = Str("")

\* C19: in every result of extract_metadata_features, order_id_missing is 1
\* exactly when the row's order_id is unset, null or the empty string, and 0
\* for every other identifier; the same for purchase_id_missing and
\* purchase_id.
C19_MissingIdentifiers ==
    (last.op = "extract_metadata_features" /\ ~last.out.raised) =>
        /\ Feature(last.out.value, "order_id_missing")
               = (IF IdentifierMissing(last.args[1], "order_id") THEN 1 ELSE 0)
        /\ Feature(last.out.value, "purchase_id_missing")
               = (IF IdentifierMissing(last.args[1], "purchase_id") THEN 1 ELSE 0)

\* C20: in every frame extract_all_features returns, the caps_ratio of a row
\* is the number of uppercase characters of the row's original text divided
\* by the length of the original text (in hundredths), and 0 when the text
\* is missing or empty.
C20_CapsRatioOfOriginalText ==
    (last.op = "extract_all_features" /\ ~last.out.raised) =>
        \A i \in DOMAIN last.args[1] :
            LET text == last.args[1][i]["text_"]
            IN  Feature(last.out.value[i], "caps_ratio")
                    = (IF isna(text) \/ text.v = <<>>
                       THEN 0
                       ELSE (Cardinality({j \in DOMAIN text.v : text.v[j] \in UpperSet}) * 100)
                                \div Len(text.v))

---------------------------------------------------------------------------
(* Properties of the fitted scaler and vectorizer (Spec) *)

\* C21: in every result of transform_scaler, the value x of a column whose
\* fit data had a variance above zero is mapped to (x - mean) / std of that
\* column, and every value of a column whose fit data had zero variance is
\* mapped to 0, whatever the value is.
C21_ZeroVarianceMapsToZero ==
    (last.op = "transform_scaler" /\ ~last.out.raised) =>
        LET sc == feature_extractor.scaler
            features == last.args[1]
        IN  \A i \in DOMAIN features : \A j \in DOMAIN features[i] :
                last.out.value[i][j]
                    = (IF sc.var_[j] = 0
                       THEN 0
                       ELSE ((features[i][j].value * 100 - sc.mean_[j]) * 1000)
                                \div sc.scale_[j])

\* the number of documents in which the term appears, as the vectorizer
\* reads them
DocumentFrequency(term, docs) ==
    Cardinality({d \in DOMAIN docs : \E k \in DOMAIN analyze(docs[d]) : analyze(docs[d])[k] = term})

\* the cleaned documents of the last fit_tfidf call
FitDocuments == list([i \in DOMAIN last.args[1] |-> preprocess_text(last.args[1][i])])

\* C22: after every fit_tfidf that returns, the vocabulary has at most
\* max_tfidf_features terms, no term of it is a stop word or has a stop
\* word among its words, no term of it appears in fewer than 5 of the
\* training documents, and no term of it appears in more than 80% of them.
C22_VocabularyLimits ==
    (last.op = "fit_tfidf" /\ ~last.out.raised) =>
        LET vocabulary == feature_extractor.tfidf_vectorizer.vocabulary_
            n_doc == Len(last.args[1])
        IN  /\ Len(vocabulary) <= feature_extractor.max_tfidf_features
            /\ \A j \in DOMAIN vocabulary :
                   /\ \A k \in DOMAIN split(vocabulary[j]) :
                          split(vocabulary[j])[k] \notin StopWords
                   /\ DocumentFrequency(vocabulary[j], FitDocuments) >= 5
                   /\ DocumentFrequency(vocabulary[j], FitDocuments) * 5 <= 4 * n_doc

\* a fit on documents with a stop word in at least 5 and at most 80% of
\* them, a word in more than 80% of them and a word in fewer than 5: none of
\* the three is in the vocabulary
C22_Witness ==
    /\ ReturnedFrom("fit_tfidf")
    /\ LET n_doc == Len(last.args[1])
           in_docs(w) == Cardinality({d \in DOMAIN FitDocuments :
                                         \E k \in DOMAIN split(FitDocuments[d]) :
                                             split(FitDocuments[d])[k] = w})
           vocabulary == Range(feature_extractor.tfidf_vectorizer.vocabulary_)
       IN  /\ in_docs(W_the) >= 5 /\ in_docs(W_the) * 5 <= 4 * n_doc
           /\ in_docs(W_product) * 5 > 4 * n_doc
           /\ in_docs(W_bad) \in 1..4
           /\ {W_the, W_product, W_bad} \cap vocabulary = {}
           /\ W_great \in vocabulary

---------------------------------------------------------------------------
(* The metrics documents (SpecStart) *)

\* the two metrics documents of the directory
MetricsDocuments(model_dir) == <<model_dir.model_metrics, model_dir.full_metrics>>

\* the directory is as a save_model of a training run leaves it: the
\* documents hold the values that evaluate computed
WrittenBySaveModel(model_dir) ==
    \E a \in StartArtifacts, t \in Timestamps :
        MetricsDocuments(model_dir) = MetricsDocuments(save_model(a, t))

\* C23: the metrics documents are written by save_model only, with the
\* values that evaluate computed: every step that changes model_metrics.json
\* or full_metrics.json leaves them as a save_model of a training run writes
\* them, and no other operation alters them.
C23_MetricsWrittenOnce ==
    [][MetricsDocuments(files'.saved_models) # MetricsDocuments(files.saved_models)
           => WrittenBySaveModel(files'.saved_models)]_vars

---------------------------------------------------------------------------
(* predict_bulk_reviews against predict_single_review (SpecPredict) *)

PredictionColumns == {"prediction", "fake_probability", "genuine_probability", "confidence"}

---------------------------------------------------------------------------
(* The risk factors against the metadata features (SpecPredict) *)

\* a reason of the template msg is among the reasons
Emitted(reasons, msg) == \E i \in DOMAIN reasons : reasons[i].msg = msg

\* the reasons agree with the metadata features of the record, signal by
\* signal
SignalsAgree(reasons, features) ==
    /\ Emitted(reasons, R_order.msg) <=> Feature(features, "order_id_missing") = 1
    /\ Emitted(reasons, R_purchase.msg) <=> Feature(features, "purchase_id_missing") = 1
    /\ Emitted(reasons, R_unverified.msg) <=> Feature(features, "verified_purchase") = 0
    /\ Emitted(reasons, R_before.msg) <=> Feature(features, "negative_days") = 1
    /\ Emitted(reasons, R_late(0).msg) <=> Feature(features, "very_late_review") = 1
    /\ Emitted(reasons, R_bot(0).msg) <=> Feature(features, "high_review_count") = 1
    /\ Emitted(reasons, R_rating(0).msg) <=> Feature(features, "extreme_rating") = 1

\* the record has both the reasons and the features, and they agree
RecordAgrees(record, fake_probability) ==
    LET reasons == analyze_risk_factors(record, fake_probability)
        features == extract_metadata_features(record)
    IN  (~reasons.raised /\ ~features.raised) => SignalsAgree(reasons.value, features.value)

\* the agreement on the records that validate_review_data returns
ValidatedRecordsAgree ==
    ReturnedFrom("validate_review_data") =>
        \A p \in RiskProbabilities : RecordAgrees(last.out.value, p)

\* C26: the risk factors and the metadata features of a record agree on
\* each of the seven metadata signals, for every record that
\* validate_review_data returns, and also for every record given to
\* analyze_risk_factors or to predict_single_review as it is, with optional
\* fields absent.
C26_RiskFactorsMatchFeatures ==
    /\ ValidatedRecordsAgree
    /\ ReturnedFrom("analyze_risk_factors") => RecordAgrees(last.args[1], last.args[2])
    /\ ReturnedFrom("predict_single_review") =>
           SignalsAgree(last.out.value.risk_factors,
                        extract_metadata_features(last.args[1]).value)

---------------------------------------------------------------------------
(* The effect of validate_review_data on the record (SpecPredict) *)

\* the seven default fields and their values
SevenDefaults ==
    [order_id |-> None,
     purchase_id |-> None,
     verified_purchase |-> Bool(FALSE),
     user_id |-> Str("UNKNOWN"),
     days_after_purchase |-> Num(30),
     user_review_count |-> Num(1),
     category |-> Str("General")]

\* C27: a validate_review_data call that returns leaves every field that
\* the record had with the value it had, a null included, in the record and
\* in the result; the fields added are the absent ones of the seven default
\* fields, with their default values; validating the result again changes
\* nothing; and a call that raises leaves the record as it was.
C27_ValidationKeepsPresentFields ==
    last.op = "validate_review_data" =>
        LET given == last.args[1]
            left == last.args[2]
        IN  IF last.out.raised
            THEN left = given
            ELSE LET result == last.out.value
                 IN  /\ \A k \in DOMAIN given : result[k] = given[k] /\ left[k] = given[k]
                     /\ DOMAIN result = DOMAIN given \cup DOMAIN SevenDefaults
                     /\ \A k \in DOMAIN result \ DOMAIN given : result[k] = SevenDefaults[k]
                     /\ call_validate_review_data(result)
                            = [review_data |-> result, out |-> Return(result)]

\* a record with a null order id and a null day count and without the other
\* default fields has been validated
C27_Witness ==
    /\ ReturnedFrom("validate_review_data")
    /\ {"order_id", "days_after_purchase"} \subseteq DOMAIN last.args[1]
    /\ last.args[1]["order_id"] = None
    /\ last.args[1]["days_after_purchase"] = None
    /\ {"user_id", "category"} \cap DOMAIN last.args[1] = {}
    /\ last.out.value["days_after_purchase"] = None
    /\ last.out.value["user_id"] = Str("UNKNOWN")

---------------------------------------------------------------------------
(* The names of get_feature_importance (SpecPredict) *)

\* the names of the columns of the feature vector: those of the frame that
\* extract_all_features returns, then the vocabulary
FeatureVectorColumns ==
    LET statistical == Names(extract_all_features(<<DS_A[1]>>).value[1])
        vocabulary == feature_extractor.tfidf_vectorizer.vocabulary_
    IN  [i \in DOMAIN statistical |-> Str(statistical[i])]
        \o [i \in DOMAIN vocabulary |-> Text(vocabulary[i])]

\* C28: the list of statistical names in get_feature_importance is the list
\* of the columns that extract_all_features produces, the 8 text statistics
\* then the 10 metadata features, in the same order; and in every frame that
\* get_feature_importance returns, the importance of column i of the feature
\* vector stands under the name of column i, for every column.
C28_ImportanceNamesFollowColumns ==
    (ReturnedFrom("get_feature_importance") /\ model # None) =>
        LET importances == feature_importances_(model)
            rows == last.out.value
        IN  /\ statistical_feature_names = Names(extract_all_features(<<DS_A[1]>>).value[1])
            /\ Len(statistical_feature_names) = 18
            /\ SubSeq(statistical_feature_names, 1, 8) = text_stat_names
            /\ Len(rows) = Len(importances)
            /\ Len(FeatureVectorColumns) = Len(importances)
            /\ \A i \in DOMAIN importances :
                   \E n \in DOMAIN rows :
                       rows[n] = [feature |-> FeatureVectorColumns[i],
                                  importance |-> importances[i]]

\* a model of two trees, one splitting on order_id_missing and one on the
\* first lexical column: each has half of the importance
C28_Witness ==
    /\ ReturnedFrom("get_feature_importance")
    /\ model # None
    /\ last.out.value[1] = [feature |-> Str("order_id_missing"), importance |-> 500]
    /\ last.out.value[2] = [feature |-> Text(feature_extractor.tfidf_vectorizer.vocabulary_[1]),
                            importance |-> 500]
    /\ last.out.value[3].importance = 0

---------------------------------------------------------------------------
(* routes/analytics.py: the dataset and the endpoints that read it *)

\* a row of enhanced_reviews_dataset.csv: the columns of a review and its label
DatasetRow(label, days, order_id, verified) ==
    LET row == Row(T_great_product, 50, order_id, PUR, verified, days, 3)
    IN  [k \in (DOMAIN row \ {"user_id"}) \cup {"label"} |->
            IF k = "label" THEN Str(label) ELSE row[k]]

MaxRows == 4
DatasetRows ==
    {DatasetRow("CG", -3, None, FALSE), DatasetRow("OR", 0, ORD, TRUE),
     DatasetRow("CG", 7, ORD, TRUE), DatasetRow("OR", 400, ORD, FALSE)}
Datasets == UNION {[1..n -> DatasetRows] : n \in 0..MaxRows}

\* a loaded frame: its rows, each a mapping from column to cell
DataFrame(rows) == [t |-> "DataFrame", rows |-> rows]

\* the statements at the top of the module: pd.read_csv, the label_binary
\* column, json.load of full_metrics.json; any exception leaves df = None
load_dataset(data_file, metrics_file) ==
    IF data_file = Missing \/ metrics_file \in {Missing, Corrupt}
    THEN None
    ELSE DataFrame([i \in DOMAIN data_file.rows |->
             [k \in DOMAIN data_file.rows[i] \cup {"label_binary"} |->
                 IF k = "label_binary" THEN Num(b2i(data_file.rows[i]["label"] = Str("CG")))
                 ELSE data_file.rows[i][k]]])

\* df[df[column] == value]: the rows that have the value, in order
rows_where(frame, col, value) ==
    LET RECURSIVE upto(_)
        upto(n) == IF n = 0 THEN <<>>
                   ELSE IF frame[n][col] = value
                        THEN Append(upto(n - 1), frame[n])
                        ELSE upto(n - 1)
    IN  upto(Len(frame))

\* a // b of Python: the floor of the quotient, for a divisor of either sign
floor_div(a, b) == IF b > 0 THEN a \div b ELSE (0 - a) \div (0 - b)

\* round(num / den * 100, 2), in hundredths of a percent: to the nearest,
\* a tie to the even neighbour
round_percent(num, den) ==
    LET q == (num * 10000) \div den
        r == (num * 10000) % den
    IN  IF 2 * r > den \/ (2 * r = den /\ q % 2 = 1) THEN q + 1 ELSE q

\* the error response of a handler
analytics_error(code, msg) == Response(code, [error |-> msg])

(* get_timing_stats *)

timing_labels ==
    <<"Before Purchase", "0-7 days", "8-30 days", "31-90 days",
      "91-180 days", "181-365 days", "365+ days">>

\* the inner edges of bins; the outer two are -inf and +inf
timing_edges == <<0, 7, 30, 90, 180, 365>>

\* pd.cut(x, bins, labels) for one value: intervals closed on the right, so
\* x falls in the first interval whose upper edge is at least x; NaN stays NaN
cut(x) ==
    IF isna(x) THEN None
    ELSE LET within == {i \in DOMAIN timing_edges : x.v <= timing_edges[i]}
         IN  Str(timing_labels[IF within = {} THEN Len(timing_labels) ELSE Min(within)])

\* df['timing_bin'] = pd.cut(df['days_after_purchase'], ...)
with_timing_bin(frame) ==
    [i \in DOMAIN frame |->
        [k \in DOMAIN frame[i] \cup {"timing_bin"} |->
            IF k = "timing_bin" THEN cut(frame[i]["days_after_purchase"])
            ELSE frame[i][k]]]

\* the entries of timing_stats, for the labels up to the n-th
timing_stats(frame, n) ==
    LET RECURSIVE upto(_)
        upto(k) ==
            IF k = 0 THEN <<>>
            ELSE Let(rows_where(frame, "timing_bin", Str(timing_labels[k])), LAMBDA bin_df :
                 Let(Len(rows_where(bin_df, "label", Str("CG"))), LAMBDA fake :
                     IF Len(bin_df) > 0
                     THEN Append(upto(k - 1),
                                 [period |-> timing_labels[k],
                                  total |-> Len(bin_df),
                                  fake |-> fake,
                                  genuine |-> Len(bin_df) - fake,
                                  fake_rate |-> round_percent(fake, Len(bin_df))])
                     ELSE upto(k - 1)))
    IN  upto(n)

\* the handler: [df |-> the dataset global after the call, response |-> ...]
get_timing_stats(frame) ==
    IF frame = None
    THEN [df |-> frame, response |-> analytics_error(500, "Dataset not loaded")]
    ELSE Let(with_timing_bin(frame.rows), LAMBDA binned :
             [df |-> DataFrame(binned),
              response |-> Response(200, [timing_distribution |->
                               timing_stats(binned, Len(timing_labels))])])

(* get_reviews *)

digits == <<"0", "1", "2", "3", "4", "5", "6", "7", "8", "9">>
digit_value(c) == (CHOOSE i \in DOMAIN digits : digits[i] = c) - 1
IsDigit(c) == \E i \in DOMAIN digits : digits[i] = c

\* int(s) of a query string: an optional sign and decimal digits
parse_int(s) ==
    LET signed == s # <<>> /\ s[1] \in {"-", "+"}
        body == IF signed THEN Tail(s) ELSE s
        RECURSIVE value(_)
        value(n) == IF n = 0 THEN 0 ELSE 10 * value(n - 1) + digit_value(body[n])
    IN  IF body # <<>> /\ \A i \in DOMAIN body : IsDigit(body[i])
        THEN Return(IF signed /\ s[1] = "-" THEN 0 - value(Len(body)) ELSE value(Len(body)))
        ELSE Raise("ValueError", "invalid literal for int()")

\* request.args.get(key, default) followed by int(): the default is an int
int_arg(args, key, default) ==
    IF key \in DOMAIN args THEN parse_int(args[key]) ELSE Return(default)

\* frame.iloc[start:end]: negative positions count from the end, positions
\* outside the frame are clipped
iloc(frame, start, end) ==
    LET clip(i) == IF i < 0 THEN (IF Len(frame) + i < 0 THEN 0 ELSE Len(frame) + i)
                   ELSE IF i > Len(frame) THEN Len(frame) ELSE i
    IN  IF clip(start) >= clip(end) THEN <<>>
        ELSE SubSeq(frame, clip(start) + 1, clip(end))

\* int(value) of a cell: NaN cannot be converted
int_cell(x) == IF isna(x) THEN Raise("ValueError", "cannot convert float NaN to integer")
               ELSE Return(x)

\* the dict built for one row of the page
review_dict(row) ==
    [text |-> row["text_"],
     rating |-> row["rating"],
     label |-> row["label"],
     category |-> row["category"],
     verified_purchase |-> Bool(truthy(row["verified_purchase"])),
     days_after_purchase |-> int_cell(row["days_after_purchase"]).value,
     user_review_count |-> int_cell(row["user_review_count"]).value,
     order_id |-> IF ~isna(row["order_id"]) THEN row["order_id"] ELSE None,
     purchase_id |-> IF ~isna(row["purchase_id"]) THEN row["purchase_id"] ELSE None]

\* df[df['label'] == ...] for the two known filters, df itself otherwise
filtered(frame, filter_type) ==
    IF filter_type = <<"f","a","k","e">> THEN rows_where(frame, "label", Str("CG"))
    ELSE IF filter_type = <<"g","e","n","u","i","n","e">> THEN rows_where(frame, "label", Str("OR"))
    ELSE frame

\* a page that starts one row late
page_start_late(page, per_page) == (page - 1) * per_page + 1
page_start(page, per_page) == (page - 1) * per_page

\* the handler, on the query parameters args; every exception inside the
\* try block is answered by 500
get_reviews(frame, args) ==
    IF frame = None THEN analytics_error(500, "Dataset not loaded")
    ELSE
    Let(int_arg(args, "page", 1), LAMBDA page :
    Let(int_arg(args, "per_page", 50), LAMBDA per_page :
        IF page.raised \/ per_page.raised
        THEN analytics_error(500, "Failed to fetch reviews")
        ELSE
        Let(filtered(frame.rows, IF "filter" \in DOMAIN args THEN args["filter"] ELSE <<"a","l","l">>),
            LAMBDA filtered_df :
        Let(page_start(page.value, per_page.value), LAMBDA start :
        Let(iloc(filtered_df, start, start + per_page.value), LAMBDA page_df :
            IF \E i \in DOMAIN page_df :
                   \/ int_cell(page_df[i]["days_after_purchase"]).raised
                   \/ int_cell(page_df[i]["user_review_count"]).raised
            THEN analytics_error(500, "Failed to fetch reviews")
            ELSE IF per_page.value = 0
            THEN analytics_error(500, "Failed to fetch reviews")
            ELSE Response(200,
                     [total |-> Len(filtered_df),
                      page |-> page.value,
                      per_page |-> per_page.value,
                      total_pages |-> floor_div(Len(filtered_df) + per_page.value - 1,
                                                per_page.value),
                      reviews |-> list([i \in DOMAIN page_df |-> review_dict(page_df[i])])]))))))

(* The analytics endpoints (SpecAnalytics) *)

DataFiles == {[t |-> "csv", rows |-> d] : d \in Datasets} \cup {Missing}
MetricsFiles == {[accuracy |-> AdjustedAccuracy], Corrupt}

InitAnalytics ==
    /\ \E data \in DataFiles, metrics \in MetricsFiles :
           analytics_df = load_dataset(data, metrics)
    /\ model = Unimported
    /\ feature_extractor = Unimported
    /\ bulk = Unimported
    /\ last = NoCall
    /\ calls = NoCalls
    /\ files = EmptyDisk

\* args: the query parameters and the dataset global before the call
GetReviews(args) ==
    /\ Ready
    /\ last' = Call("get_reviews", <<args, analytics_df>>,
                    Return(get_reviews(analytics_df, args)))
    /\ UNCHANGED <<analytics_df, files, bulk, feature_extractor, model, calls>>

GetTimingStats ==
    /\ Ready
    /\ LET r == get_timing_stats(analytics_df)
       IN  /\ last' = Call("get_timing_stats", <<analytics_df>>, Return(r.response))
           /\ analytics_df' = r.df
    /\ UNCHANGED <<files, bulk, feature_extractor, model, calls>>

\* the query strings of the requests
MaxPage == 4
MaxPerPage == 3
Numeral(n) == IF n < 0 THEN <<"-", digits[1 - n]>> ELSE <<digits[n + 1]>>
PageValues == {Numeral(n) : n \in 0..MaxPage} \cup {<<"x">>}
PerPageValues == {Numeral(n) : n \in (0 - 1)..MaxPerPage}
FilterValues == {<<"f","a","k","e">>, <<"g","e","n","u","i","n","e">>, <<"a","l","l">>, <<"x">>}
Queries ==
    {[page |-> p, per_page |-> n, filter |-> f] :
        p \in PageValues, n \in PerPageValues, f \in FilterValues}
    \cup {[page |-> p] : p \in PageValues}
    \cup {[filter |-> <<"a","l","l">>]}

NextAnalytics ==
    \/ \E args \in Queries : GetReviews(args)
    \/ GetTimingStats
    \/ Returned

SpecAnalytics == InitAnalytics /\ [][NextAnalytics]_vars

---------------------------------------------------------------------------
(* The pages of GET /analytics/reviews (SpecAnalytics) *)

\* the reviews of a frame that a filter keeps, in dataset order
FilteredReviews(frame, args) ==
    LET kept(row) ==
            IF "filter" \notin DOMAIN args THEN TRUE
            ELSE IF args["filter"] = <<"f","a","k","e">> THEN row["label"] = Str("CG")
            ELSE IF args["filter"] = <<"g","e","n","u","i","n","e">> THEN row["label"] = Str("OR")
            ELSE TRUE
    IN  SelectSeq(frame.rows, kept)

\* the reviews that the same request returns for page q
PageOf(frame, args, q) ==
    get_reviews(frame, [k \in DOMAIN args \cup {"page"} |->
                           IF k = "page" THEN Numeral(q) ELSE args[k]]).body.reviews

\* pages 1..n one after the other
PagesUpTo(frame, args, n) ==
    LET RECURSIVE upto(_)
        upto(q) == IF q = 0 THEN <<>> ELSE upto(q - 1) \o PageOf(frame, args, q)
    IN  upto(n)

\* C29: a get_reviews request leaves the shared dataset as it was; when
\* per_page >= 1 and the page number is an integer, for every filter:
\* total is the number of filtered reviews, total_pages is the least n with
\* n * per_page >= total, pages 1..total_pages put one after the other are
\* the filtered reviews in dataset order, every page holds at most per_page
\* reviews, and the page after the last one, like the page requested when it
\* lies beyond total_pages, is empty.
C29_PagesPartitionFilteredReviews ==
    last.op = "get_reviews" =>
        LET args == last.args[1]
            frame == last.args[2]
            per_page == int_arg(args, "per_page", 50)
            page == int_arg(args, "page", 1)
            body == last.out.value.body
        IN  /\ analytics_df = frame
            /\ (frame # None /\ ~page.raised /\ ~per_page.raised /\ per_page.value >= 1) =>
                   LET reviews == FilteredReviews(frame, args)
                   IN  /\ last.out.value.code = 200
                       /\ body.total = Len(reviews)
                       /\ body.total_pages * per_page.value >= body.total
                       /\ (body.total_pages - 1) * per_page.value < body.total
                       /\ body.total_pages >= 0
                       /\ PagesUpTo(frame, args, body.total_pages)
                              = [i \in DOMAIN reviews |-> review_dict(reviews[i])]
                       /\ \A q \in 1..body.total_pages :
                              Len(PageOf(frame, args, q)) \in 1..per_page.value
                       /\ PageOf(frame, args, body.total_pages + 1) = <<>>
                       /\ page.value > body.total_pages => body.reviews = <<>>
                       /\ page.value \in 1..body.total_pages =>
                              body.reviews = PageOf(frame, args, page.value)

\* the second page of two reviews each, of three fake reviews in a dataset
\* of four, asked for after the timing statistics
C29_Witness ==
    /\ last.op = "get_reviews"
    /\ last.args[2] # None
    /\ Len(last.args[2].rows) = 4
    /\ "timing_bin" \in DOMAIN last.args[2].rows[1]
    /\ last.args[1] = [page |-> <<"2">>, per_page |-> <<"2">>, filter |-> <<"f","a","k","e">>]
    /\ last.out.value.body.total = 3
    /\ last.out.value.body.total_pages = 2
    /\ Len(last.out.value.body.reviews) = 1
    /\ last.out.value.body.reviews[1].label = Str("CG")

---------------------------------------------------------------------------
(* The periods of GET /analytics/timing (SpecAnalytics) *)

\* the number of rows of the frame with property P
RowCount(frame, P(_)) == Cardinality({i \in DOMAIN frame.rows : P(frame.rows[i])})

\* the total that the response reports for a period, 0 when it reports none
PeriodTotal(stats, period) ==
    IF \E i \in DOMAIN stats : stats[i].period = period
    THEN stats[CHOOSE i \in DOMAIN stats : stats[i].period = period].total
    ELSE 0

\* C30: in every response of get_timing_stats the totals of the periods add
\* up to the number of reviews with a days_after_purchase value, 'Before
\* Purchase' counts exactly the reviews with days_after_purchase < 0, the
\* reviews of day 0 are counted in '0-7 days' (which holds the reviews of
\* days 0 to 7), and fake + genuine = total in every reported period.
C30_TimingPeriods ==
    (last.op = "get_timing_stats" /\ last.args[1] # None) =>
        LET frame == last.args[1]
            stats == last.out.value.body.timing_distribution
            days(row) == row["days_after_purchase"]
        IN  /\ Sum([i \in DOMAIN stats |-> stats[i].total])
                   = RowCount(frame, LAMBDA row : ~isna(days(row)))
            /\ PeriodTotal(stats, "Before Purchase")
                   = RowCount(frame, LAMBDA row : ~isna(days(row)) /\ days(row).v < 0)
            /\ PeriodTotal(stats, "0-7 days")
                   = RowCount(frame, LAMBDA row : ~isna(days(row)) /\ days(row).v \in 0..7)
            /\ \A i \in DOMAIN stats : stats[i].fake + stats[i].genuine = stats[i].total

====
